---- MODULE Spec2Model ----
(***************************************************************************)
(* pandabase: a locally cached snapshot of a remote table, the row-level   *)
(* diff between a desired DataFrame and that snapshot, and the cache       *)
(* validity oracle.                                                        *)
(*                                                                         *)
(* Specifications of this module:                                          *)
(*   SpecRows   rows_are_equal applied to bounded row pairs                *)
(*   SpecDiff   gen_diffs applied to bounded DataFrame pairs               *)
(*   SpecCache  a CacheManager driven through load / validate / update     *)
(*   Spec       a Table (with its CacheManager) against a remote table     *)
(*   SpecHash   calculate_hash applied to pairs of snapshots               *)
(*   SpecPersist  the persisted cache entry across processes               *)
(*   SpecRace   two processes updating the cache entry of one table        *)
(*   SpecSync   a SupaDataFrame mirrored to the remote table               *)
(*   SpecField  Field.validate_series applied to bounded columns           *)
(*   SpecAlias  the objects a SupaDataFrame and its Table share            *)
(*   SpecDelete Table.delete applied to bounded lists of records           *)
(*   SpecPages  the loop of SupaWrapper.upsert, one request at a time      *)
(*   SpecStale  Table.validate_cache beside another client's writes        *)
(***************************************************************************)
EXTENDS Integers, Sequences, FiniteSets, TLC

VARIABLES
    pc,               \* position of the driver of the specification
    \* ---- rows_are_equal (SpecRows)
    source_row,       \* pd.Series: [index, data]
    destination_row,  \* pd.Series
    dtypes,           \* column -> dtype name of the source DataFrame
    are_equal,        \* value returned by rows_are_equal
    \* ---- gen_diffs (SpecDiff)
    df_source,        \* DataFrame
    df_destination,   \* DataFrame or None
    diff_result,      \* [raised, upsert_df, delete_df]
    \* ---- CacheManager (SpecCache, Spec)
    cache,            \* the CacheManager's local_df, local_stats, local_hash
    files,            \* table_loc: data.csv and cache_metadata.json
    call,             \* the last call made: its kind, arguments and outcome
    \* ---- Table and the remote table (Spec)
    table,            \* the Table's data, meta, cache_valid
    remote,           \* the remote table: its rows and its statistics
    \* ---- SupaDataFrame (SpecSync)
    sdf,              \* the SupaDataFrame's df, or None before construction
    half_applied,     \* a mirror failed after it had changed remote rows
    \* ---- two processes sharing one table_loc (SpecRace)
    cycles            \* per process: its position, its CacheManager, its arguments

rows_vars == <<source_row, destination_row, dtypes, are_equal>>
diff_vars == <<df_source, df_destination, diff_result>>
cache_vars == <<cache, files, call>>
table_vars == <<table, remote>>
sync_vars == <<sdf, half_applied>>
race_vars == <<cycles>>
vars == <<pc, rows_vars, diff_vars, cache_vars, table_vars, sync_vars, race_vars>>

(***************************************************************************)
(* Python values                                                           *)
(***************************************************************************)
\* Python's None (an absent DataFrame, stats or hash)
None == [none |-> TRUE]

\* A cell value is tagged with its Python kind:
\*   null   None / NaN / NaT (everything pd.isna accepts)
\*   num    a float or an int, held in fixed point: v counts units of 1e-8
\*   str    a Python str
\*   ts     a pd.Timestamp, v the instant (seconds after 2024-01-01T00:00Z)
Null == [k |-> "null", v |-> 0]
Num(n) == [k |-> "num", v |-> n]
Str(s) == [k |-> "str", v |-> s]
Ts(t) == [k |-> "ts", v |-> t]

\* pd.isna
isna(val) == val.k = "null"

\* isinstance(val, str)
isstr(val) == val.k = "str"

\* Python's s_val != d_val on two non-null scalars
PyNe(s_val, d_val) == s_val.k # d_val.k \/ s_val.v # d_val.v

Abs(n) == IF n < 0 THEN -n ELSE n

\* the whole number n in fixed point
Whole(n) == Num(n * 100000000)

\* atol=1e-08 of numpy.isclose, in fixed-point units
ATOL == 1

\* rtol=1e-05 of numpy.isclose, as the divisor 1/rtol
RTOL_INV == 100000

\* numpy.isclose(a, b, rtol=1e-05, atol=1e-08): |a - b| <= atol + rtol * |b|.
\* The left side is a whole number of units, so comparing with the floor of
\* the right side is exact.
isclose(a, b) == Abs(a - b) <= ATOL + (Abs(b) \div RTOL_INV)

\* Texts the model draws from, with the instant pd.to_datetime parses them
\* to. A text outside this table makes pd.to_datetime raise ValueError.
TimestampText ==
    [t \in {"2024-01-01T00:00:00+00:00", "2024-01-01 00:00:00+00:00",
            "2024-01-02T00:00:00+00:00", "2024-01-02 00:00:00+00:00"} |->
        IF t \in {"2024-01-02T00:00:00+00:00", "2024-01-02 00:00:00+00:00"}
        THEN 86400 ELSE 0]

\* pd.to_datetime(text) does not raise
parses(text) == text \in DOMAIN TimestampText

\* pd.to_datetime(text), for a text that parses
to_datetime(text) == TimestampText[text]

\* pd.Timestamp(val) of a Timestamp or of a text that parses
Timestamp(val) == IF isstr(val) THEN to_datetime(val.v) ELSE val.v

\* dtype names. "datetime64[ns, UTC]" (pandas' DatetimeTZDtype) is an
\* extension dtype: it is not an instance of numpy.dtype.
NumpyDtypes == {"int64", "float64", "datetime64[ns]", "object"}

\* isinstance(dtype, numpy.dtype)
is_numpy_dtype(dtype) == dtype \in NumpyDtypes

\* pd.api.types.is_numeric_dtype(dtype if isinstance(dtype, numpy.dtype) else 'fail')
is_numeric_dtype(dtype) == is_numpy_dtype(dtype) /\ dtype \in {"int64", "float64"}

\* pd.api.types.is_datetime64_any_dtype(dtype if isinstance(dtype, numpy.dtype) else 'fail')
is_datetime64_any_dtype(dtype) == is_numpy_dtype(dtype) /\ dtype = "datetime64[ns]"

\* default of the ignore_columns parameter
ignore_columns == {"created_at", "updated_at"}

(***************************************************************************)
(* rows_are_equal                                                          *)
(***************************************************************************)
\* The string fallback of the standard comparison: both values are str and
\* differ textually. The code RETURNS the comparison of the parsed values.
StringFallback(s_val, d_val) ==
    IF parses(s_val.v) /\ parses(d_val.v)
    THEN (IF to_datetime(s_val.v) = to_datetime(d_val.v)
          THEN "return_true" ELSE "return_false")
    ELSE "return_false"   \* ValueError caught, then return False

\* One pass of the loop body for a column that is not ignored:
\* "continue" (next column), "return_true" or "return_false".
ColumnStep(s_val, d_val, dtype) ==
    IF isna(s_val) /\ isna(d_val) THEN "continue"
    ELSE IF isna(s_val) # isna(d_val) THEN "return_false"
    ELSE IF is_numeric_dtype(dtype) /\ ~isclose(s_val.v, d_val.v) THEN "return_false"
    ELSE IF is_datetime64_any_dtype(dtype) /\ Timestamp(s_val) # Timestamp(d_val) THEN "return_false"
    ELSE IF PyNe(s_val, d_val)
         THEN (IF isstr(s_val) /\ isstr(d_val)
               THEN StringFallback(s_val, d_val)
               ELSE "return_false")
    ELSE "continue"

RECURSIVE RowLoop(_, _, _, _, _)
\* The for loop over source_row.index, from position i on
RowLoop(s_row, d_row, types, ignored, i) ==
    IF i > Len(s_row.index) THEN TRUE
    ELSE LET col == s_row.index[i] IN
         IF col \in ignored THEN RowLoop(s_row, d_row, types, ignored, i + 1)
         ELSE LET step == ColumnStep(s_row.data[col], d_row.data[col], types[col]) IN
              IF step = "continue" THEN RowLoop(s_row, d_row, types, ignored, i + 1)
              ELSE step = "return_true"

rows_are_equal(s_row, d_row, types) == RowLoop(s_row, d_row, types, ignore_columns, 1)

(***************************************************************************)
(* DataFrames and gen_diffs                                                *)
(***************************************************************************)
\* A DataFrame: its columns in order, each column's dtype, the row labels
\* (df.index) and the rows by position.
DataFrame(columns, types, index, rows) ==
    [columns |-> columns, dtypes |-> types, index |-> index, rows |-> rows]

\* len(df)
len(df) == Len(df.rows)

\* df.iloc[i] does not raise IndexError (labels of the model are >= 0)
iloc_ok(df, i) == i \in 0 .. (len(df) - 1)

\* df.iloc[i]: the row at POSITION i, as a Series indexed by the columns
iloc(df, i) == [index |-> df.columns, data |-> df.rows[i + 1]]

\* tuple(row[primary_keys])
pk_tuple(row, primary_keys) == [j \in 1 .. Len(primary_keys) |-> row[primary_keys[j]]]

\* {tuple(row[primary_keys]): idx for idx, row in df.iterrows()}: iterrows
\* yields each row with its LABEL, and a later row replaces an earlier entry
\* with the same key.
index_by_pk(df, primary_keys) ==
    LET keys == {pk_tuple(df.rows[p], primary_keys) : p \in 1 .. len(df)}
        last(key) == CHOOSE p \in 1 .. len(df) :
                        /\ pk_tuple(df.rows[p], primary_keys) = key
                        /\ \A q \in 1 .. len(df) :
                              pk_tuple(df.rows[q], primary_keys) = key => q <= p
    IN [key \in keys |-> df.index[last(key)]]

RECURSIVE SortedSeq(_)
\* list(a set of ints), in ascending order
SortedSeq(S) ==
    IF S = {} THEN <<>>
    ELSE LET m == CHOOSE x \in S : \A y \in S : x <= y
         IN <<m>> \o SortedSeq(S \ {m})

\* df.iloc[list(positions)].copy(): the rows at these positions with their labels
iloc_list(df, positions) ==
    LET ps == SortedSeq(positions) IN
    DataFrame(df.columns, df.dtypes,
              [j \in 1 .. Len(ps) |-> df.index[ps[j] + 1]],
              [j \in 1 .. Len(ps) |-> df.rows[ps[j] + 1]])

\* The upsert loop: the idx values added to upsert_idx
upsert_idx(source, destination, primary_keys) ==
    LET source_index_by_pk == index_by_pk(source, primary_keys)
        destination_index_by_pk == index_by_pk(destination, primary_keys)
    IN {source_index_by_pk[pk] : pk \in
          {k \in DOMAIN source_index_by_pk :
              \/ k \notin DOMAIN destination_index_by_pk
              \/ ~rows_are_equal(iloc(source, source_index_by_pk[k]),
                                 iloc(destination, destination_index_by_pk[k]),
                                 source.dtypes)}}

\* delete_idx: the labels of the destination rows whose key is not in source
delete_idx(source, destination, primary_keys) ==
    LET source_index_by_pk == index_by_pk(source, primary_keys)
        destination_index_by_pk == index_by_pk(destination, primary_keys)
    IN {destination_index_by_pk[k] : k \in
          {k \in DOMAIN destination_index_by_pk : k \notin DOMAIN source_index_by_pk}}

\* Some .iloc of gen_diffs raises IndexError: in the upsert loop for a key
\* present on both sides, or in the final selection of the two frames.
diff_raises(source, destination, primary_keys) ==
    LET source_index_by_pk == index_by_pk(source, primary_keys)
        destination_index_by_pk == index_by_pk(destination, primary_keys)
        both == DOMAIN source_index_by_pk \cap DOMAIN destination_index_by_pk
    IN \/ \E k \in both : \/ ~iloc_ok(source, source_index_by_pk[k])
                          \/ ~iloc_ok(destination, destination_index_by_pk[k])
       \/ \E k \in DOMAIN source_index_by_pk \ both :
             ~iloc_ok(source, source_index_by_pk[k])
       \/ \E k \in DOMAIN destination_index_by_pk \ both :
             ~iloc_ok(destination, destination_index_by_pk[k])

\* What gen_diffs returns, or raised = TRUE when it raises
DiffReturn(upsert_df, delete_df) ==
    [raised |-> FALSE, upsert_df |-> upsert_df, delete_df |-> delete_df]

DiffRaise == [raised |-> TRUE, upsert_df |-> None, delete_df |-> None]

gen_diffs(source, destination, primary_keys) ==
    IF destination = None THEN DiffReturn(source, None)
    ELSE IF diff_raises(source, destination, primary_keys) THEN DiffRaise
    ELSE LET ups == upsert_idx(source, destination, primary_keys)
             dels == delete_idx(source, destination, primary_keys)
         IN DiffReturn(IF ups # {} THEN iloc_list(source, ups) ELSE None,
                       IF dels # {} THEN iloc_list(destination, dels) ELSE None)

(***************************************************************************)
(* TableStats and CacheMetadata                                            *)
(***************************************************************************)
\* datetime.fromisoformat('1970-01-01T00:00:00+00:00'), as seconds after
\* 2024-01-01T00:00Z
Epoch == Ts(-1704067200)

\* TableStats(...) with __post_init__: a missing last_modified (an empty
\* remote table) becomes the epoch
TableStats(last_modified, record_count, total_modifications) ==
    [last_modified |-> IF last_modified = None THEN Epoch ELSE last_modified,
     record_count |-> record_count,
     total_modifications |-> total_modifications]

\* datetime.isoformat and datetime.fromisoformat
isoformat(dt) == [iso |-> dt.v]

fromisoformat(text) == Ts(text.iso)

\* TableStats.asdict
stats_asdict(stats) ==
    [last_modified |-> isoformat(stats.last_modified),
     record_count |-> stats.record_count,
     total_modifications |-> stats.total_modifications]

\* TableStats.from_dict: last_modified is converted when it is a string
stats_from_dict(data) ==
    TableStats(IF data.last_modified # None /\ "iso" \in DOMAIN data.last_modified
               THEN fromisoformat(data.last_modified)
               ELSE data.last_modified,
               data.record_count, data.total_modifications)

\* TableStats.validate: the list of issues is empty
stats_validate(self, other) ==
    /\ self.last_modified = other.last_modified
    /\ self.record_count = other.record_count
    /\ self.total_modifications = other.total_modifications

\* CacheMetadata(stats, data_hash).asdict(), as written to cache_metadata.json
metadata_asdict(stats, data_hash) == [stats |-> stats_asdict(stats), data_hash |-> data_hash]

(***************************************************************************)
(* CSV text and the content hash                                           *)
(***************************************************************************)
\* str(pd.Timestamp): the text to_csv writes for a timestamp
TimestampStr(t) ==
    IF t = 0 THEN "2024-01-01 00:00:00+00:00" ELSE "2024-01-02 00:00:00+00:00"

\* Texts that are the characters of an integer literal as to_csv writes it,
\* with the integer in fixed point
IntLiteral == [t \in {"7"} |-> 700000000]

\* Texts that pd.read_csv parses as an integer although to_csv would not
\* write the integer that way (leading zeros), with the integer
NumericText == [t \in {"007"} |-> 700000000]

\* One cell of the CSV text: empty, a text, or a numeric literal written
\* without ("int") or with ("float") a decimal point. A str holding the
\* characters of an integer literal is written as the same characters as the
\* integer.
CsvCell(val, dtype) ==
    CASE val.k = "null" -> [k |-> "empty", v |-> 0]
      [] val.k = "str" -> IF val.v \in DOMAIN IntLiteral
                          THEN [k |-> "int", v |-> IntLiteral[val.v]]
                          ELSE [k |-> "text", v |-> val.v]
      [] val.k = "ts" -> [k |-> "text", v |-> TimestampStr(val.v)]
      [] val.k = "num" -> [k |-> IF dtype = "int64" THEN "int" ELSE "float", v |-> val.v]

\* df.to_csv(index=False): the header and one line per row; the row labels
\* are not written
to_csv(df) ==
    [header |-> df.columns,
     lines |-> [i \in 1 .. len(df) |->
                  [j \in 1 .. Len(df.columns) |->
                      CsvCell(df.rows[i][df.columns[j]], df.dtypes[df.columns[j]])]]]

\* what the parser of pd.read_csv takes a cell for
csv_kind(cell) ==
    IF cell.k = "text" /\ cell.v \in DOMAIN NumericText THEN "int" ELSE cell.k

\* the dtype pd.read_csv infers for column j of the text
csv_dtype(csv, j) ==
    LET kinds == {csv_kind(csv.lines[i][j]) : i \in 1 .. Len(csv.lines)} IN
    IF kinds = {} THEN "object"
    ELSE IF kinds = {"int"} THEN "int64"
    ELSE IF kinds \subseteq {"int", "float", "empty"} THEN "float64"
    ELSE "object"

\* the value pd.read_csv gives a cell of a column of this dtype: a number in
\* a numeric column, the cell's characters in an object column
csv_value(cell, dtype) ==
    IF cell.k = "empty" THEN Null
    ELSE IF dtype = "object"
         THEN (IF cell.k = "text" THEN Str(cell.v)
               ELSE IF \E t \in DOMAIN IntLiteral : IntLiteral[t] = cell.v
                    THEN Str(CHOOSE t \in DOMAIN IntLiteral : IntLiteral[t] = cell.v)
                    ELSE Num(cell.v))
         ELSE Num(IF cell.k = "text" THEN NumericText[cell.v] ELSE cell.v)

\* pd.read_csv(data.csv): a default RangeIndex and inferred dtypes
read_csv(csv) ==
    LET column(col) == CHOOSE j \in 1 .. Len(csv.header) : csv.header[j] = col IN
    DataFrame(csv.header,
              [col \in {csv.header[j] : j \in 1 .. Len(csv.header)} |->
                  csv_dtype(csv, column(col))],
              [i \in 1 .. Len(csv.lines) |-> i - 1],
              [i \in 1 .. Len(csv.lines) |->
                  [col \in {csv.header[j] : j \in 1 .. Len(csv.header)} |->
                      csv_value(csv.lines[i][column(col)], csv_dtype(csv, column(col)))]])

\* hashlib.sha256(text.encode()).hexdigest(): collision-free on the texts of
\* the model
sha256(text) == [sha256 |-> text]

\* a text holding a lone surrogate, which str.encode() cannot encode
LoneSurrogate == Str("\\ud800")

\* text.encode() raises UnicodeEncodeError
encode_raises(csv) ==
    \E i \in 1 .. Len(csv.lines) : \E j \in 1 .. Len(csv.lines[i]) :
        csv.lines[i][j] = CsvCell(LoneSurrogate, "object")

\* CacheManager.calculate_hash
calculate_hash(df) == sha256(to_csv(df))

\* CacheManager.calculate_hash raises: df is None (None has no to_csv) or the
\* CSV text cannot be encoded
calculate_hash_raises(df) == df = None \/ encode_raises(to_csv(df))

(***************************************************************************)
(* CacheManager                                                            *)
(***************************************************************************)
\* the three cache fields of a CacheManager
CacheFields(local_df, local_stats, local_hash) ==
    [local_df |-> local_df, local_stats |-> local_stats, local_hash |-> local_hash]

\* a file whose content cannot be parsed: pd.read_csv, json.load or
\* CacheMetadata.from_dict raises on it
Malformed == [malformed |-> TRUE]

\* pd.read_csv(data.csv) gives a DataFrame
csv_loads(f) == f.data_csv # None /\ f.data_csv # Malformed

\* CacheMetadata.from_dict(json.load(cache_metadata.json)) gives the metadata
metadata_loads(f) == f.cache_metadata_json # None /\ f.cache_metadata_json # Malformed

\* A load_cache that keeps the snapshot it read when the metadata cannot be
\* loaded, which C19_EmptyUntilUpdated tells apart from load_cache
load_cache_keeping_snapshot(f) ==
    IF ~metadata_loads(f)
    THEN CacheFields(IF csv_loads(f) THEN read_csv(f.data_csv) ELSE None, None, None)
    ELSE CacheFields(IF csv_loads(f) THEN read_csv(f.data_csv) ELSE None,
                     stats_from_dict(f.cache_metadata_json.stats),
                     f.cache_metadata_json.data_hash)

\* CacheManager.__init__ followed by load_cache. Both reads are inside a try
\* that catches every exception: a data.csv that is missing or cannot be
\* read leaves local_df None; a cache_metadata.json that is missing or
\* cannot be loaded leaves the stats and the hash None and resets local_df.
load_cache(f) ==
    IF ~metadata_loads(f) THEN CacheFields(None, None, None)
    ELSE CacheFields(IF csv_loads(f) THEN read_csv(f.data_csv) ELSE None,
                     stats_from_dict(f.cache_metadata_json.stats),
                     f.cache_metadata_json.data_hash)

\* A validate_cache without its last check, which C7_ValidIffFourChecks
\* tells apart from validate_cache
validate_cache_without_hash_check(c, external_stats) ==
    IF c.local_df = None \/ c.local_stats = None \/ c.local_hash = None THEN FALSE
    ELSE IF ~stats_validate(c.local_stats, external_stats) THEN FALSE
    ELSE IF len(c.local_df) # external_stats.record_count THEN FALSE
    ELSE TRUE

\* CacheManager.validate_cache
validate_cache(c, external_stats) ==
    IF c.local_df = None \/ c.local_stats = None \/ c.local_hash = None THEN FALSE
    ELSE IF ~stats_validate(c.local_stats, external_stats) THEN FALSE
    ELSE IF len(c.local_df) # external_stats.record_count THEN FALSE
    ELSE IF c.local_hash # calculate_hash(c.local_df) THEN FALSE
    ELSE TRUE

\* A rollback that leaves the hash unrestored, which C9_FailedUpdateRollsBack
\* tells apart from rollback
rollback_without_hash(current_df, current_stats, current_hash) ==
    CacheFields(current_df, current_stats, None)

\* The except branch of update_cache: the three fields get the values saved
\* before the try
rollback(current_df, current_stats, current_hash) ==
    CacheFields(current_df, current_stats, current_hash)

\* The first write of the persistence: self.local_df.to_csv(data.csv)
write_data_csv(f, df) == [f EXCEPT !.data_csv = to_csv(df)]

\* A second write that leaves a metadata file it finds in place, which
\* C20_LaterCycleOverwrites tells apart from write_cache_metadata
write_cache_metadata_if_absent(f, stats, data_hash) ==
    IF f.cache_metadata_json = None
    THEN [f EXCEPT !.cache_metadata_json = metadata_asdict(stats, data_hash)]
    ELSE f

\* The second write of the persistence: json.dump of
\* CacheMetadata(stats, self.local_hash).asdict() to cache_metadata.json
write_cache_metadata(f, stats, data_hash) ==
    [f EXCEPT !.cache_metadata_json = metadata_asdict(stats, data_hash)]

\* An update_cache that keeps the hash it had, which C8_UpdateThenValidate
\* tells apart from update_cache
update_cache_with_stale_hash(c, f, stats, df) ==
    IF calculate_hash_raises(df)
    THEN [cache |-> rollback(c.local_df, c.local_stats, c.local_hash),
          files |-> f,
          success |-> FALSE,
          returned |-> "None"]
    ELSE [cache |-> CacheFields(df, stats, c.local_hash),
          files |-> [data_csv |-> to_csv(df),
                     cache_metadata_json |-> metadata_asdict(stats, c.local_hash)],
          success |-> TRUE,
          returned |-> "None"]

\* CacheManager.update_cache(stats, df). The except branch is taken when
\* calculate_hash raises inside the try. The outcome holds the fields and the
\* files after the call, the local variable success and the value returned
\* to the caller, which is None on every path.
update_cache(c, f, stats, df) ==
    LET current_df == c.local_df
        current_stats == c.local_stats
        current_hash == c.local_hash
    IN IF calculate_hash_raises(df)
       THEN [cache |-> rollback(current_df, current_stats, current_hash),
             files |-> f,
             success |-> FALSE,
             returned |-> "None"]
       ELSE [cache |-> CacheFields(df, stats, calculate_hash(df)),
             files |-> write_cache_metadata(write_data_csv(f, df), stats, calculate_hash(df)),
             success |-> TRUE,
             returned |-> "None"]

(***************************************************************************)
(* Table                                                                   *)
(***************************************************************************)
\* the schema of the table of the model: id int8 primary key, a text,
\* updated_at timestamptz
SchemaColumns == <<"id", "a", "updated_at">>

\* TableSchema.pks
SchemaPks == <<"id">>

\* TableSchema.pd_dtypes: the first entry of validity_map for each udt_name
SchemaDtypes ==
    [col \in {"id", "a", "updated_at"} |->
        CASE col = "id" -> "int64"
          [] col = "a" -> "object"
          [] OTHER -> "datetime64[ns, UTC]"]

\* TableSchema.validate_df_schema: every field is a column of df and its
\* series has no issue. Of validate_series the model keeps the nullability
\* check of the primary key; the frames of Spec hold int64 ids and texts,
\* which pass type_validation.
validate_df_schema(df) ==
    \A j \in 1 .. Len(SchemaColumns) :
        /\ \E i \in 1 .. Len(df.columns) : df.columns[i] = SchemaColumns[j]
        /\ SchemaColumns[j] = "id" => \A p \in 1 .. len(df) : ~isna(df.rows[p]["id"])

\* Table.set_df: an empty df gets the schema's dtypes; ok is FALSE when
\* ValueError is raised
set_df(df) ==
    LET typed == IF len(df) = 0 THEN [df EXCEPT !.dtypes = SchemaDtypes] ELSE df
    IN [ok |-> validate_df_schema(typed), data |-> typed]

\* Table.get_table_stats: TableStats.from_dict of the row the statistics
\* query returns
get_table_stats(r) == stats_from_dict(r.stats)

\* Connection.get_table: pd.DataFrame(all_records), or pd.DataFrame() with
\* no columns when the table has no rows
get_table(r) ==
    IF Len(r.rows) = 0 THEN DataFrame(<<>>, <<>>, <<>>, <<>>)
    ELSE DataFrame(SchemaColumns,
                   [col \in {"id", "a", "updated_at"} |-> IF col = "id" THEN "int64" ELSE "object"],
                   [i \in 1 .. Len(r.rows) |-> i - 1],
                   r.rows)

\* The Table's fields
TableFields(data, meta, cache_valid) ==
    [data |-> data, meta |-> meta, cache_valid |-> cache_valid]

\* A pull_table_data that sets the data from what get_table returns even
\* when the table has no rows, which C14_InvalidCacheIsRebuilt tells apart
\* from pull_table_data
pull_table_data_as_read(r) == set_df(get_table(r))

\* Table.pull_table_data: the data set from the remote rows (an empty frame
\* of the schema when there are none)
pull_table_data(r) ==
    IF len(get_table(r)) = 0
    THEN set_df(DataFrame(SchemaColumns, SchemaDtypes, <<>>, <<>>))
    ELSE set_df(get_table(r))

\* What Table.validate_cache and Table.update_cache assign to cache_valid
\* after CacheManager.update_cache has returned
cache_valid_after_update(outcome) == "True"

\* Table.validate_cache. The outcome holds the Table's fields, the cache and
\* the files after the call, whether it raised, and the outcome of the
\* CacheManager.update_cache it made (None when it made none).
table_validate_cache(t, c, f, r) ==
    LET meta == get_table_stats(r) IN
    IF ~validate_cache(c, meta)
    THEN LET pulled == pull_table_data(r)
             upd == update_cache(c, f, get_table_stats(r), pulled.data)
         IN IF ~pulled.ok
            THEN [table |-> TableFields(t.data, meta, t.cache_valid),
                  cache |-> c, files |-> f, raised |-> TRUE, update |-> None]
            ELSE [table |-> TableFields(pulled.data, get_table_stats(r),
                                        cache_valid_after_update(upd)),
                  cache |-> upd.cache, files |-> upd.files, raised |-> FALSE,
                  update |-> [success |-> upd.success, returned |-> upd.returned]]
    ELSE LET loaded == set_df(c.local_df) IN
         IF ~loaded.ok
         THEN [table |-> TableFields(t.data, meta, t.cache_valid),
               cache |-> c, files |-> f, raised |-> TRUE, update |-> None]
         ELSE [table |-> TableFields(loaded.data, c.local_stats, "True"),
               cache |-> c, files |-> f, raised |-> FALSE, update |-> None]

\* Table.update_cache(df)
table_update_cache(t, c, f, r, df) ==
    LET checked == set_df(df)
        meta == get_table_stats(r)
        upd == update_cache(c, f, meta, df)
    IN IF ~checked.ok
       THEN [table |-> t, cache |-> c, files |-> f, raised |-> TRUE, update |-> None]
       ELSE [table |-> TableFields(checked.data, meta, cache_valid_after_update(upd)),
             cache |-> upd.cache, files |-> upd.files, raised |-> FALSE,
             update |-> [success |-> upd.success, returned |-> upd.returned]]

(***************************************************************************)
(* The remote writer                                                       *)
(***************************************************************************)
\* max(updated_at) of the statistics query: NULL for an empty table
max_updated_at(rows) ==
    IF Len(rows) = 0 THEN None
    ELSE Ts(to_datetime(rows[1].updated_at.v))

\* the remote table holding these rows after total_modifications changes
RemoteTable(rows, total_modifications) ==
    [rows |-> rows,
     stats |-> [last_modified |-> max_updated_at(rows),
                record_count |-> Len(rows),
                total_modifications |-> total_modifications]]

\* rows sent per request: page_size of SupaWrapper.upsert (500) and of
\* SupaWrapper.delete (30), scaled down to the frames of the model
PageSize == 1

\* the rows of a set, as the remote table returns them: in the order of id
rows_by_id(S) ==
    LET ids == SortedSeq({row.id.v : row \in S})
    IN [j \in 1 .. Len(ids) |-> CHOOSE row \in S : row.id.v = ids[j]]

\* An upsert request that the modification counter misses, which
\* C12_HalfAppliedWriteInvalidates tells apart from request_upsert
request_upsert_uncounted(r, batch) ==
    LET current == {r.rows[i] : i \in 1 .. Len(r.rows)}
        sent == {batch[j] : j \in 1 .. Len(batch)}
        old(rec) == IF \E row \in current : row.id = rec.id
                    THEN CHOOSE row \in current : row.id = rec.id
                    ELSE [col \in {"id", "a", "updated_at"} |-> Null]
        merged(rec) == [col \in {"id", "a", "updated_at"} |->
                           IF col \in DOMAIN rec THEN rec[col] ELSE old(rec)[col]]
        kept == {row \in current : \A rec \in sent : rec.id # row.id}
    IN RemoteTable(rows_by_id(kept \cup {merged(rec) : rec \in sent}),
                   r.stats.total_modifications)

\* One upsert request (on_conflict = the primary key): a record replaces the
\* columns it holds of the row with its id, or becomes a new row with NULL in
\* the columns it lacks. Every record counts as one modification.
request_upsert(r, batch) ==
    LET current == {r.rows[i] : i \in 1 .. Len(r.rows)}
        sent == {batch[j] : j \in 1 .. Len(batch)}
        old(rec) == IF \E row \in current : row.id = rec.id
                    THEN CHOOSE row \in current : row.id = rec.id
                    ELSE [col \in {"id", "a", "updated_at"} |-> Null]
        merged(rec) == [col \in {"id", "a", "updated_at"} |->
                           IF col \in DOMAIN rec THEN rec[col] ELSE old(rec)[col]]
        kept == {row \in current : \A rec \in sent : rec.id # row.id}
    IN RemoteTable(rows_by_id(kept \cup {merged(rec) : rec \in sent}),
                   r.stats.total_modifications + Len(batch))

\* One delete request: the rows with these keys are removed; every removed
\* row counts as one modification.
request_delete(r, batch) ==
    LET current == {r.rows[i] : i \in 1 .. Len(r.rows)}
        sent == {batch[j] : j \in 1 .. Len(batch)}
        kept == {row \in current : \A rec \in sent : rec.id # row.id}
    IN RemoteTable(rows_by_id(kept),
                   r.stats.total_modifications + Cardinality(current \ kept))

\* What a paginated write returns: the remote table after it, whether it
\* raised, and the number of requests it sent
WriteOutcome(r, raised, requests) == [remote |-> r, raised |-> raised, requests |-> requests]

\* A batch of everything that is left, which C30_UpsertPaginates tells
\* apart from batch_of
batch_of_the_rest(data, processed, page_size) == SubSeq(data, processed + 1, Len(data))

\* batch = data[processed:processed+page_size]
batch_of(data, processed, page_size) ==
    SubSeq(data, processed + 1,
           IF processed + page_size < Len(data) THEN processed + page_size ELSE Len(data))

\* the batch of the writes of the model, whose page_size is PageSize
page(data, processed) == batch_of(data, processed, PageSize)

RECURSIVE upsert_loop(_, _, _, _, _)
\* The while loop of SupaWrapper.upsert. The request numbered fail_at is
\* answered with an error, which is raised: the pages before it stay applied.
upsert_loop(r, data, processed, requests, fail_at) ==
    IF processed >= Len(data) THEN WriteOutcome(r, FALSE, requests)
    ELSE IF requests + 1 = fail_at THEN WriteOutcome(r, TRUE, requests + 1)
    ELSE upsert_loop(request_upsert(r, page(data, processed)), data,
                     processed + PageSize, requests + 1, fail_at)

RECURSIVE delete_loop(_, _, _, _, _)
\* The while loop of SupaWrapper.delete
delete_loop(r, primary_keys, processed, requests, fail_at) ==
    IF processed >= Len(primary_keys) THEN WriteOutcome(r, FALSE, requests)
    ELSE IF requests + 1 = fail_at THEN WriteOutcome(r, TRUE, requests + 1)
    ELSE delete_loop(request_delete(r, page(primary_keys, processed)), primary_keys,
                     processed + PageSize, requests + 1, fail_at)

\* Table.upsert(data): the int fields are cast with int(), which raises for a
\* NaN or a missing id before anything is sent; then Connection.upsert
upsert(r, data, fail_at) ==
    IF \E j \in 1 .. Len(data) : "id" \notin DOMAIN data[j] \/ isna(data[j].id)
    THEN WriteOutcome(r, TRUE, 0)
    ELSE upsert_loop(r, data, 0, 0, fail_at)

\* pks_passed of Table.delete: the keys found in any of the records
pks_passed(primary_keys) ==
    UNION {DOMAIN primary_keys[j] : j \in 1 .. Len(primary_keys)}

\* The validation of Table.delete raises ValueError: some key passed is not
\* a primary key of the schema (pks), or, while looking at a key passed,
\* some primary key is not among the keys passed. Both tests are made on
\* pks_passed, not on each record.
delete_raises(primary_keys, pks) ==
    \E pk_passed \in pks_passed(primary_keys) :
        \/ pk_passed \notin pks
        \/ \E pk \in pks : pk \notin pks_passed(primary_keys)

\* Table.delete(primary_keys): the validation, then Connection.delete
delete(r, primary_keys, fail_at) ==
    IF delete_raises(primary_keys, {SchemaPks[j] : j \in 1 .. Len(SchemaPks)})
    THEN WriteOutcome(r, TRUE, 0)
    ELSE delete_loop(r, primary_keys, 0, 0, fail_at)

RECURSIVE delete_queries(_, _, _)
\* The queries SupaWrapper.delete builds for a list of records: with one key
\* in the first record of a page, [pk[key_name] for pk in batch] raises
\* KeyError for a record without that key and the page is not sent;
\* otherwise the page is sent as one query.
delete_queries(primary_keys, processed, requests) ==
    IF processed >= Len(primary_keys) THEN [raised |-> FALSE, requests |-> requests]
    ELSE LET batch == page(primary_keys, processed)
             single == Cardinality(DOMAIN batch[1]) = 1
             key_name == CHOOSE k \in DOMAIN batch[1] : TRUE
         IN IF single /\ \E j \in 1 .. Len(batch) : key_name \notin DOMAIN batch[j]
            THEN [raised |-> TRUE, requests |-> requests]
            ELSE delete_queries(primary_keys, processed + Len(batch), requests + 1)

(***************************************************************************)
(* SupaDataFrame                                                           *)
(***************************************************************************)
\* pd.api.types.is_datetime64_any_dtype(df[col]) of convert_tz
is_datetime_column(dtype) == dtype \in {"datetime64[ns]", "datetime64[ns, UTC]"}

\* x.isoformat() of a Timestamp converted to America/Los_Angeles
LosAngelesText(t) ==
    IF t = 0 THEN "2023-12-31T16:00:00-08:00" ELSE "2024-01-01T16:00:00-08:00"

\* convert_tz(df): the values of the datetime columns become ISO texts
convert_tz(df) ==
    DataFrame(df.columns,
              [col \in DOMAIN df.dtypes |->
                  IF is_datetime_column(df.dtypes[col]) THEN "object" ELSE df.dtypes[col]],
              df.index,
              [i \in 1 .. len(df) |->
                  [col \in DOMAIN df.rows[i] |->
                      IF is_datetime_column(df.dtypes[col]) /\ df.rows[i][col].k = "ts"
                      THEN Str(LosAngelesText(df.rows[i][col].v))
                      ELSE df.rows[i][col]]])

\* df.to_dict(orient='records')
to_dict_records(df) == df.rows

\* df[primary_keys].to_dict(orient='records')
pk_records(df, primary_keys) ==
    [i \in 1 .. len(df) |->
        [col \in {primary_keys[j] : j \in 1 .. Len(primary_keys)} |-> df.rows[i][col]]]

\* What mirror leaves behind: the Table, the cache, the files and the remote
\* table after it, whether it raised and whether a remote write raised, the
\* requests it sent, and the calls it made of Table.get_table_stats and of
\* Table.update_cache
MirrorOutcome(t, c, f, r, raised, write_raised, upsert_requests, delete_requests, stats_fetches, cache_updates) ==
    [table |-> t, cache |-> c, files |-> f, remote |-> r,
     raised |-> raised, write_raised |-> write_raised,
     upsert_requests |-> upsert_requests, delete_requests |-> delete_requests,
     stats_fetches |-> stats_fetches, cache_updates |-> cache_updates]

\* A mirror that re-caches although a remote write raised, which
\* C11_CacheUntouchedByFailedWrite tells apart from mirror
write_raised_then_recached(self_df, t, c, f, r, upsert_requests, delete_requests) ==
    LET upd == table_update_cache(t, c, f, r, self_df) IN
    MirrorOutcome(upd.table, upd.cache, upd.files, r, TRUE, TRUE,
                  upsert_requests, delete_requests, 1, 1)

\* Table.upsert or Table.delete raises inside mirror: the exception leaves
\* mirror, no later statement runs
write_raised(self_df, t, c, f, r, upsert_requests, delete_requests) ==
    MirrorOutcome(t, c, f, r, TRUE, TRUE, upsert_requests, delete_requests, 0, 0)

\* An end of mirror that updates the cache whether or not a write was made,
\* which C18_NoDiffNoEffect tells apart from mirror_re_cache
mirror_always_re_cache(self_df, t, c, f, r, re_cache, upsert_requests, delete_requests) ==
    LET upd == table_update_cache(t, c, f, r, self_df) IN
    MirrorOutcome(upd.table, upd.cache, upd.files, r, upd.raised, FALSE,
                  upsert_requests, delete_requests,
                  IF upd.raised THEN 0 ELSE 1, 1)

\* The end of mirror: if re_cache: self.table.update_cache(self.df)
mirror_re_cache(self_df, t, c, f, r, re_cache, upsert_requests, delete_requests) ==
    IF re_cache
    THEN LET upd == table_update_cache(t, c, f, r, self_df) IN
         MirrorOutcome(upd.table, upd.cache, upd.files, r, upd.raised, FALSE,
                       upsert_requests, delete_requests,
                       IF upd.raised THEN 0 ELSE 1, 1)
    ELSE MirrorOutcome(t, c, f, r, FALSE, FALSE, upsert_requests, delete_requests, 0, 0)

\* SupaDataFrame.mirror. fail_upsert and fail_delete number the request of
\* each write that the remote answers with an error (0: none).
mirror(self_df, t, c, f, r, fail_upsert, fail_delete) ==
    LET diffs == gen_diffs(self_df, t.data, SchemaPks) IN
    IF diffs.raised THEN MirrorOutcome(t, c, f, r, TRUE, FALSE, 0, 0, 0, 0)
    ELSE LET up == IF diffs.upsert_df # None
                   THEN upsert(r, to_dict_records(convert_tz(diffs.upsert_df)), fail_upsert)
                   ELSE WriteOutcome(r, FALSE, 0)
         IN IF up.raised THEN write_raised(self_df, t, c, f, up.remote, up.requests, 0)
            ELSE LET del == IF diffs.delete_df # None
                            THEN delete(up.remote, pk_records(diffs.delete_df, SchemaPks),
                                        fail_delete)
                            ELSE WriteOutcome(up.remote, FALSE, 0)
                 IN IF del.raised
                    THEN write_raised(self_df, t, c, f, del.remote, up.requests, del.requests)
                    ELSE mirror_re_cache(self_df, t, c, f, del.remote,
                                         diffs.upsert_df # None \/ diffs.delete_df # None,
                                         up.requests, del.requests)

(***************************************************************************)
(* Field: validation of a column against a PG catalog field                *)
(***************************************************************************)
\* Numbers of the columns a Field validates. Their magnitudes go beyond the
\* fixed point of Num, so a number is held exactly as a sign, a scale, four
\* limbs of 16 bits (the integer part, most significant first) and a
\* fraction in tenths. Scale 0 is a number whose integer part is below 2^64;
\* the other scales are the single values named below.
Limb == 65536

Number(neg, scale, limbs, frac) ==
    [neg |-> neg, scale |-> scale, limbs |-> limbs, frac |-> frac]

\* the whole number with the given limbs
WholeNumber(neg, l3, l2, l1, l0) == Number(neg, 0, <<l3, l2, l1, l0>>, 0)

\* 3.4028235e+38 and 1.7976931348623157e+308 of float_downcast_map, the
\* float 1e39 between them, and float('inf')
Float32Max == Number(FALSE, 1, <<0, 0, 0, 0>>, 0)
E39 == Number(FALSE, 2, <<0, 0, 0, 0>>, 0)
Float64Max == Number(FALSE, 3, <<0, 0, 0, 0>>, 0)
Infinity == Number(FALSE, 4, <<0, 0, 0, 0>>, 0)

\* -x, for x that is not zero
Negative(x) == [x EXCEPT !.neg = ~x.neg]

\* the magnitude of a number as a sequence ordered lexicographically
MagKey(x) == <<x.scale>> \o x.limbs \o <<x.frac>>

SeqLess(s, t) ==
    \E i \in 1 .. Len(s) : s[i] < t[i] /\ \A j \in 1 .. i - 1 : s[j] = t[j]

\* x < y and x <= y on numbers (zero is never negative)
NumLess(x, y) ==
    IF x.neg # y.neg THEN x.neg
    ELSE IF x.neg THEN SeqLess(MagKey(y), MagKey(x))
    ELSE SeqLess(MagKey(x), MagKey(y))

NumLe(x, y) == x = y \/ NumLess(x, y)

\* 2^n for n in 0 .. 15
Pow2(n) == CASE n = 0 -> 1 [] n = 1 -> 2 [] n = 2 -> 4 [] n = 3 -> 8
             [] n = 4 -> 16 [] n = 5 -> 32 [] n = 6 -> 64 [] n = 7 -> 128
             [] n = 8 -> 256 [] n = 9 -> 512 [] n = 10 -> 1024
             [] n = 11 -> 2048 [] n = 12 -> 4096 [] n = 13 -> 8192
             [] n = 14 -> 16384 [] OTHER -> 32768

\* the number of bits of a limb
BitLength(l) == CHOOSE n \in 0 .. 16 : (n = 0 \/ l >= Pow2(n - 1)) /\ (n = 16 \/ l < Pow2(n))

\* limbs + q, where q divides Limb and the lowest limb is a multiple of q
AddLow(limbs, q) ==
    LET l0 == limbs[4] + q
        c0 == IF l0 = Limb THEN 1 ELSE 0
        l1 == limbs[3] + c0
        c1 == IF l1 = Limb THEN 1 ELSE 0
        l2 == limbs[2] + c1
        c2 == IF l2 = Limb THEN 1 ELSE 0
    IN <<limbs[1] + c2, l2 % Limb, l1 % Limb, l0 % Limb>>

\* The float64 nearest to a Python int (round half to even on the 53-bit
\* significand), which is what numpy compares when an int meets a
\* numpy.float64. An int below 2^53 is kept.
float64_of_int(x) ==
    IF x.limbs[1] < 32 THEN x
    ELSE LET dropped == BitLength(x.limbs[1]) - 5
             q == Pow2(dropped)
             low == x.limbs[4] % q
             kept == [x.limbs EXCEPT ![4] = x.limbs[4] - low]
             odd == ((x.limbs[4] - low) \div q) % 2 = 1
             up == 2 * low > q \/ (2 * low = q /\ odd)
         IN [x EXCEPT !.limbs = IF up THEN AddLow(kept, q) ELSE kept]

\* Cells of such a column: a numpy integer or a numpy float (NaN is Null)
PyInt(x) == [k |-> "int", v |-> x]
PyFloat(x) == [k |-> "float", v |-> x]

\* A pd.Series: its dtype name and its values
Series(dtype, values) == [dtype |-> dtype, values |-> values]

\* series.dropna(), as the set of positions kept
dropna(series) == {i \in 1 .. Len(series.values) : ~isna(series.values[i])}

\* series.isnull().all(): True for a series without values
isnull_all(series) == dropna(series) = {}

\* series.hasnans
hasnans(series) == \E i \in 1 .. Len(series.values) : isna(series.values[i])

\* series.min() and series.max(), which skip NaN, on a series with a number
series_min(series) ==
    LET kept == {series.values[i].v : i \in dropna(series)}
    IN CHOOSE m \in kept : \A x \in kept : NumLe(m, x)

series_max(series) ==
    LET kept == {series.values[i].v : i \in dropna(series)}
    IN CHOOSE m \in kept : \A x \in kept : NumLe(x, m)

Zero == WholeNumber(FALSE, 0, 0, 0, 0)

\* validity_map: udt_name -> the dtypes the field accepts. A udt_name that
\* is not a key (a custom type) has no entry.
validity_map ==
    [udt \in {"int2", "int4", "int8", "float4", "float8", "numeric", "text",
              "bool", "date", "timestamp", "timestamptz", "jsonb", "point"} |->
        CASE udt = "int2" -> <<"int16">>
          [] udt = "int4" -> <<"int32">>
          [] udt = "int8" -> <<"int64">>
          [] udt = "float4" -> <<"float32">>
          [] udt \in {"float8", "numeric"} -> <<"float64">>
          [] udt = "text" -> <<"object", "string">>
          [] udt = "bool" -> <<"bool", "boolean">>
          [] udt \in {"date", "timestamp"} -> <<"datetime64[ns]">>
          [] udt = "timestamptz" -> <<"datetime64[ns, UTC]">>
          [] OTHER -> <<"object">>]

\* validity_map.get(udt_lower, [])
valid_dtypes_of(udt_name) ==
    IF udt_name \in DOMAIN validity_map THEN validity_map[udt_name] ELSE <<>>

\* x in a list
InList(x, list) == \E i \in 1 .. Len(list) : list[i] = x

\* int_downcast_map and float_downcast_map, in their order of iteration
int_downcast_map ==
    <<[dtype |-> "int16",
       min |-> WholeNumber(TRUE, 0, 0, 0, 32768),
       max |-> WholeNumber(FALSE, 0, 0, 0, 32767)],
      [dtype |-> "int32",
       min |-> WholeNumber(TRUE, 0, 0, 32768, 0),
       max |-> WholeNumber(FALSE, 0, 0, 32767, 65535)],
      [dtype |-> "int64",
       min |-> WholeNumber(TRUE, 32768, 0, 0, 0),
       max |-> WholeNumber(FALSE, 32767, 65535, 65535, 65535)]>>

float_downcast_map ==
    <<[dtype |-> "float32", min |-> Negative(Float32Max), max |-> Float32Max],
      [dtype |-> "float64", min |-> Negative(Float64Max), max |-> Float64Max]>>

\* the dtypes of a map whose range holds [min_val, max_val], in order
covering(map, min_val, max_val) ==
    SelectSeq(map, LAMBDA range_dict :
                      NumLe(range_dict.min, min_val) /\ NumLe(max_val, range_dict.max))

dtypes_of(ranges) == [i \in 1 .. Len(ranges) |-> ranges[i].dtype]

\* A valid_int_downcasts without the casts to float, which
\* C22_IntegerColumnIffCoveringRepresentation tells apart from
\* valid_int_downcasts
valid_int_downcasts_without_floats(series) ==
    LET min_val == IF dropna(series) = {} THEN Zero ELSE series_min(series)
        max_val == IF dropna(series) = {} THEN Zero ELSE series_max(series)
    IN dtypes_of(covering(int_downcast_map, min_val, max_val))

\* Field.valid_int_downcasts: min_val and max_val are numpy integers, which
\* compare exactly with the ints of int_downcast_map
valid_int_downcasts(series) ==
    LET min_val == IF dropna(series) = {} THEN Zero ELSE series_min(series)
        max_val == IF dropna(series) = {} THEN Zero ELSE series_max(series)
    IN dtypes_of(covering(int_downcast_map, min_val, max_val))
       \o dtypes_of(covering(float_downcast_map, min_val, max_val))

\* int_downcast_map as numpy compares it with a numpy.float64
int_downcast_map_as_float64 ==
    [i \in 1 .. Len(int_downcast_map) |->
        [dtype |-> int_downcast_map[i].dtype,
         min |-> float64_of_int(int_downcast_map[i].min),
         max |-> float64_of_int(int_downcast_map[i].max)]]

\* (series - numpy.floor(series)).sum() == 0: the sum skips NaN, and the
\* difference is NaN for an infinite value. Every term is >= 0.
residual_sum_is_zero(series) ==
    \A i \in dropna(series) : series.values[i].v.scale = 4 \/ series.values[i].v.frac = 0

\* Field.valid_float_downcasts: min_val and max_val are numpy.float64
valid_float_downcasts(series) ==
    LET min_val == IF dropna(series) = {} THEN Zero ELSE series_min(series)
        max_val == IF dropna(series) = {} THEN Zero ELSE series_max(series)
    IN dtypes_of(covering(float_downcast_map, min_val, max_val))
       \o (IF residual_sum_is_zero(series)
           THEN dtypes_of(covering(int_downcast_map_as_float64, min_val, max_val))
           ELSE <<>>)

\* pd.to_datetime(value) does not raise: a number is read as an epoch offset
value_parses(val) == isstr(val) => parses(val.v)

\* Field.valid_timestamp_cast: pd.to_datetime(series) does not raise
valid_timestamp_cast(series) ==
    \A i \in 1 .. Len(series.values) : value_parses(series.values[i])

\* pd.api.types.is_integer_dtype and is_float_dtype
is_integer_dtype(series) == series.dtype = "int64"

is_float_dtype(series) == series.dtype = "float64"

numeric_dtypes == {"int16", "int32", "int64", "float32", "float64"}

\* some castable dtype is in valid_dtypes
any_in(castable_dtypes, valid_dtypes) ==
    \E i \in 1 .. Len(castable_dtypes) : InList(castable_dtypes[i], valid_dtypes)

\* A type_validation without the all-null returns, which
\* C24_AllNullIsWritable tells apart from type_validation
type_validation_without_null_check(fld, series) ==
    LET valid_dtypes == valid_dtypes_of(fld.udt_name)
    IN IF Len(valid_dtypes) = 0 THEN TRUE
       ELSE IF is_integer_dtype(series)
       THEN any_in(valid_int_downcasts(series), valid_dtypes)
       ELSE IF is_float_dtype(series)
       THEN any_in(valid_float_downcasts(series), valid_dtypes)
       ELSE IF fld.udt_name \in {"timestamp", "timestamptz", "date"}
       THEN valid_timestamp_cast(series)
       ELSE InList(series.dtype, valid_dtypes)

\* Field.type_validation
type_validation(fld, series) ==
    LET valid_dtypes == valid_dtypes_of(fld.udt_name)
    IN IF Len(valid_dtypes) = 0 THEN TRUE
       ELSE IF (\E i \in 1 .. Len(valid_dtypes) : valid_dtypes[i] \in numeric_dtypes)
               /\ isnull_all(series)
       THEN TRUE
       ELSE IF (\E i \in 1 .. Len(valid_dtypes) : valid_dtypes[i] \in {"object", "string"})
               /\ isnull_all(series)
       THEN TRUE
       ELSE IF is_integer_dtype(series)
       THEN any_in(valid_int_downcasts(series), valid_dtypes)
       ELSE IF is_float_dtype(series)
       THEN any_in(valid_float_downcasts(series), valid_dtypes)
       ELSE IF fld.udt_name \in {"timestamp", "timestamptz", "date"}
       THEN valid_timestamp_cast(series)
       ELSE InList(series.dtype, valid_dtypes)

\* Texts that json.loads accepts and texts that match the point pattern
JsonTexts == {"7"}

PointTexts == {"(1,2)"}

\* Field.json_validation: the values of the model are never dict or list
json_validation(fld, series) ==
    IF fld.udt_name \notin {"json", "jsonb"} THEN TRUE
    ELSE \A i \in dropna(series) :
            isstr(series.values[i]) /\ series.values[i].v \in JsonTexts

\* Field.point_validation: the values of the model are never tuples
point_validation(fld, series) ==
    IF fld.udt_name # "point" THEN TRUE
    ELSE \A i \in dropna(series) :
            isstr(series.values[i]) /\ series.values[i].v \in PointTexts

\* two cells hold the same value
same_value(a, b) == a.k = b.k /\ a.v = b.v

\* series.duplicated().any(): a value equal to an earlier one, where pandas
\* counts missing values as equal to each other
duplicated_any(series) ==
    \E i, j \in 1 .. Len(series.values) : i < j /\ same_value(series.values[i], series.values[j])

\* Field.validate_series: the kinds of issue it returns
validate_series(fld, series) ==
    (IF ~fld.is_nullable /\ hasnans(series) THEN {"nullable"} ELSE {})
    \cup (IF fld.has_unique_constraint /\ duplicated_any(series) THEN {"unique"} ELSE {})
    \cup (IF ~type_validation(fld, series) THEN {"dtype"} ELSE {})
    \cup (IF ~json_validation(fld, series) THEN {"json"} ELSE {})
    \cup (IF ~point_validation(fld, series) THEN {"point"} ELSE {})

(***************************************************************************)
(* SpecRows: rows_are_equal on bounded row pairs                           *)
(***************************************************************************)
\* most columns a row of SpecRows has
MaxCols == 3

\* the columns rows are built from, and the dtype of each in the source frame
RowColumns == {"a", "c", "b", "t", "updated_at"}

RowDtypes ==
    [col \in RowColumns |->
        CASE col = "b" -> "float64"
          [] col = "t" -> "datetime64[ns]"
          [] OTHER -> "object"]

\* the values each column is drawn from
RowValues ==
    [a : {Str("2024-01-01T00:00:00+00:00"), Str("2024-01-01 00:00:00+00:00"),
          Str("2024-01-02T00:00:00+00:00"), Str("abc"), Null},
     c : {Str("2024-01-01T00:00:00+00:00"), Str("abc")},
     b : {Num(100000001), Num(100000002), Num(150000000), Num(250000000)},
     t : {Ts(0), Ts(86400)},
     updated_at : {Str("2024-01-01T00:00:00+00:00"), Str("2024-01-02T00:00:00+00:00")}]

\* the orders in which a row can hold some of the columns
RowIndexes ==
    {idx \in UNION {[1 .. n -> RowColumns] : n \in 1 .. MaxCols} :
        \A i, j \in DOMAIN idx : i # j => idx[i] # idx[j]}

\* the pd.Series with this index and a value of every column's set
SeriesOver(idx) ==
    {[index |-> idx, data |-> [col \in {idx[i] : i \in DOMAIN idx} |-> full[col]]] :
        full \in RowValues}

InitRows ==
    /\ pc = "rows_input"
    /\ source_row \in UNION {SeriesOver(idx) : idx \in RowIndexes}
    /\ destination_row \in SeriesOver(source_row.index)
    /\ dtypes = RowDtypes
    /\ are_equal = None
    /\ df_source = None
    /\ df_destination = None
    /\ diff_result = None
    /\ cache = None
    /\ files = None
    /\ call = None
    /\ table = None
    /\ remote = None
    /\ sdf = None
    /\ half_applied = None
    /\ cycles = None

\* the call rows_are_equal(source_row, destination_row, dtypes)
CallRowsAreEqual ==
    /\ pc = "rows_input"
    /\ are_equal' = rows_are_equal(source_row, destination_row, dtypes)
    /\ pc' = "rows_done"
    /\ UNCHANGED <<source_row, destination_row, dtypes, diff_vars, cache_vars, table_vars, sync_vars, race_vars>>

NextRows == CallRowsAreEqual

SpecRows == InitRows /\ [][NextRows]_vars

(***************************************************************************)
(* SpecDiff: gen_diffs on bounded DataFrame pairs                          *)
(***************************************************************************)
\* most rows of a DataFrame
MaxRows == 2

\* primary-key values are 1 .. MaxKey
MaxKey == MaxRows + 1

\* the primary_keys argument
PrimaryKeys == <<"id">>

DiffColumns == <<"id", "a", "updated_at">>

DiffDtypes == [col \in {"id", "a", "updated_at"} |-> IF col = "id" THEN "int64" ELSE "object"]

\* rows of one side; updated_at differs between the sides and is ignored
DiffRows(updated_at) ==
    {[id |-> Whole(k), a |-> text, updated_at |-> Str(updated_at)] :
        k \in 1 .. MaxKey, text \in {Str("2024-01-01T00:00:00+00:00"), Str("abc")}}

\* row labels of a frame of n rows: the default RangeIndex, a RangeIndex
\* starting at 1 (a slice of a longer frame) and a reversed RangeIndex
IndexOptions(n) ==
    {[i \in 1 .. n |-> i - 1], [i \in 1 .. n |-> i], [i \in 1 .. n |-> n - i]}

\* primary-key tuples are unique within the frame
unique_keys(df) ==
    \A p, q \in 1 .. len(df) :
        p # q => pk_tuple(df.rows[p], PrimaryKeys) # pk_tuple(df.rows[q], PrimaryKeys)

Frames(updated_at) ==
    {df \in UNION {{DataFrame(DiffColumns, DiffDtypes, index, rows) :
                        index \in IndexOptions(n),
                        rows \in [1 .. n -> DiffRows(updated_at)]} : n \in 0 .. MaxRows} :
        unique_keys(df)}

InitDiff ==
    /\ pc = "diff_input"
    /\ df_source \in Frames("2024-01-02T00:00:00+00:00")
    /\ df_destination \in Frames("2024-01-01T00:00:00+00:00") \cup {None}
    /\ diff_result = None
    /\ source_row = None
    /\ destination_row = None
    /\ dtypes = None
    /\ are_equal = None
    /\ cache = None
    /\ files = None
    /\ call = None
    /\ table = None
    /\ remote = None
    /\ sdf = None
    /\ half_applied = None
    /\ cycles = None

\* the call gen_diffs(df_source, df_destination, primary_keys)
CallGenDiffs ==
    /\ pc = "diff_input"
    /\ diff_result' = gen_diffs(df_source, df_destination, PrimaryKeys)
    /\ pc' = "diff_done"
    /\ UNCHANGED <<df_source, df_destination, rows_vars, cache_vars, table_vars, sync_vars, race_vars>>

NextDiff == CallGenDiffs

SpecDiff == InitDiff /\ [][NextDiff]_vars

(***************************************************************************)
(* SpecCache: one CacheManager driven by its callers                       *)
(***************************************************************************)
\* largest total_modifications counter
MaxMods == 1

\* most rows of a cached snapshot and of the remote table
MaxSnapRows == 1

\* the rows of a snapshot of n rows: ids 1 .. n, one text in column a
SnapshotRows(n, text) ==
    [i \in 1 .. n |->
        [id |-> Whole(i), a |-> text, updated_at |-> Str("2024-01-01T00:00:00+00:00")]]

\* the DataFrames handed to the cache
CacheFrames ==
    {DataFrame(SchemaColumns,
               [col \in {"id", "a", "updated_at"} |-> IF col = "id" THEN "int64" ELSE "object"],
               [i \in 1 .. n |-> i - 1],
               SnapshotRows(n, text)) :
        n \in 0 .. MaxSnapRows, text \in {Str("abc"), Null}}

\* DataFrames whose CSV text cannot be encoded
UnencodableFrames ==
    {DataFrame(SchemaColumns,
               [col \in {"id", "a", "updated_at"} |-> IF col = "id" THEN "int64" ELSE "object"],
               <<0>>,
               SnapshotRows(1, LoneSurrogate))}

\* the TableStats handed to the cache
StatsSet ==
    {TableStats(last_modified, record_count, total_modifications) :
        last_modified \in {None, Ts(0)},
        record_count \in 0 .. MaxSnapRows,
        total_modifications \in {0, MaxMods}}

NoFiles == [data_csv |-> None, cache_metadata_json |-> None]

InitCache ==
    /\ pc = "cache"
    /\ files = NoFiles
    /\ cache = load_cache(files)
    /\ call = [op |-> "none"]
    /\ table = None
    /\ remote = None
    /\ source_row = None
    /\ destination_row = None
    /\ dtypes = None
    /\ are_equal = None
    /\ df_source = None
    /\ df_destination = None
    /\ diff_result = None
    /\ sdf = None
    /\ half_applied = None
    /\ cycles = None

\* A new process: CacheManager(table, table_loc) loads what the files hold
NewCacheManager ==
    /\ pc = "cache"
    /\ cache' = load_cache(files)
    /\ UNCHANGED <<pc, files, call, rows_vars, diff_vars, table_vars, sync_vars, race_vars>>

\* cache.validate_cache(external_stats)
CallValidateCache ==
    /\ pc = "cache"
    /\ pc' = "cache_returned"
    /\ \E external_stats \in StatsSet :
          call' = [op |-> "validate_cache",
                   external_stats |-> external_stats,
                   result |-> validate_cache(cache, external_stats)]
    /\ UNCHANGED <<cache, files, rows_vars, diff_vars, table_vars, sync_vars, race_vars>>

\* cache.update_cache(stats, df). A successful call records its arguments, a
\* failed one the fields and files it started from.
CallUpdateCache ==
    /\ pc = "cache"
    /\ pc' = "cache_returned"
    /\ \E stats \in StatsSet, df \in CacheFrames \cup UnencodableFrames \cup {None} :
          LET outcome == update_cache(cache, files, stats, df) IN
          /\ cache' = outcome.cache
          /\ files' = outcome.files
          /\ call' = [op |-> "update_cache",
                      success |-> outcome.success,
                      returned |-> outcome.returned,
                      stats |-> IF outcome.success THEN stats ELSE None,
                      df |-> IF outcome.success THEN df ELSE None,
                      before |-> IF outcome.success THEN None
                                 ELSE [cache |-> cache, files |-> files]]
    /\ UNCHANGED <<rows_vars, diff_vars, table_vars, sync_vars, race_vars>>

\* The caller takes the result of the call and is ready for the next one
CallReturns ==
    /\ pc = "cache_returned"
    /\ pc' = "cache"
    /\ call' = [op |-> "none"]
    /\ UNCHANGED <<cache, files, rows_vars, diff_vars, table_vars, sync_vars, race_vars>>

\* data.csv is rewritten from outside the program
ExternalFileChange ==
    /\ pc = "cache"
    /\ csv_loads(files)
    /\ \E df \in CacheFrames :
          /\ to_csv(df) # files.data_csv
          /\ files' = [files EXCEPT !.data_csv = to_csv(df)]
    /\ UNCHANGED <<pc, cache, call, rows_vars, diff_vars, table_vars, sync_vars, race_vars>>

\* update_cache keeps a reference to the caller's DataFrame (self.local_df =
\* df): the caller changes that DataFrame in place
InPlaceChange ==
    /\ pc = "cache"
    /\ cache.local_df # None
    /\ \E df \in CacheFrames :
          /\ df # cache.local_df
          /\ cache' = [cache EXCEPT !.local_df = df]
    /\ UNCHANGED <<pc, files, call, rows_vars, diff_vars, table_vars, sync_vars, race_vars>>

NextCache ==
    \/ NewCacheManager
    \/ CallValidateCache
    \/ CallUpdateCache
    \/ CallReturns
    \/ ExternalFileChange
    \/ InPlaceChange

SpecCache == InitCache /\ [][NextCache]_vars

(***************************************************************************)
(* Spec: a Table with its CacheManager against the remote table            *)
(***************************************************************************)
\* the row sets the remote table takes
RemoteRows == {SnapshotRows(n, text) : n \in 0 .. MaxSnapRows, text \in {Str("abc"), Null}}

Init ==
    /\ pc = "table"
    /\ files = NoFiles
    /\ cache = load_cache(files)
    /\ table = TableFields(None, None, "None")
    /\ remote \in {RemoteTable(rows, 0) : rows \in RemoteRows}
    /\ call = [op |-> "init"]
    /\ source_row = None
    /\ destination_row = None
    /\ dtypes = None
    /\ are_equal = None
    /\ df_source = None
    /\ df_destination = None
    /\ diff_result = None
    /\ sdf = None
    /\ half_applied = None
    /\ cycles = None

\* A new process: Table(db, table) with a new CacheManager
NewTable ==
    /\ pc = "table"
    /\ table' = TableFields(None, None, "None")
    /\ cache' = load_cache(files)
    /\ call' = [op |-> "Table"]
    /\ UNCHANGED <<pc, files, remote, rows_vars, diff_vars, sync_vars, race_vars>>

\* table.validate_cache()
TableValidateCache ==
    /\ pc = "table"
    /\ LET outcome == table_validate_cache(table, cache, files, remote) IN
       /\ table' = outcome.table
       /\ cache' = outcome.cache
       /\ files' = outcome.files
       /\ call' = [op |-> "Table.validate_cache",
                   raised |-> outcome.raised,
                   update |-> outcome.update,
                   cache_was_valid |-> validate_cache(cache, get_table_stats(remote))]
    /\ UNCHANGED <<pc, remote, rows_vars, diff_vars, sync_vars, race_vars>>

\* table.update_cache(df)
TableUpdateCache ==
    /\ pc = "table"
    /\ \E df \in CacheFrames \cup UnencodableFrames :
          LET outcome == table_update_cache(table, cache, files, remote, df) IN
          /\ table' = outcome.table
          /\ cache' = outcome.cache
          /\ files' = outcome.files
          /\ call' = [op |-> "Table.update_cache",
                      raised |-> outcome.raised,
                      update |-> outcome.update]
    /\ UNCHANGED <<pc, remote, rows_vars, diff_vars, sync_vars, race_vars>>

\* The remote table is written (by this or another client)
RemoteWrite ==
    /\ pc = "table"
    /\ remote.stats.total_modifications < MaxMods
    /\ \E rows \in RemoteRows :
          /\ rows # remote.rows
          /\ remote' = RemoteTable(rows, remote.stats.total_modifications + 1)
    /\ call' = [op |-> "remote_write"]
    /\ UNCHANGED <<pc, table, cache, files, rows_vars, diff_vars, sync_vars, race_vars>>

Next ==
    \/ NewTable
    \/ TableValidateCache
    \/ TableUpdateCache
    \/ RemoteWrite

Spec == Init /\ [][Next]_vars

(***************************************************************************)
(* SpecHash: calculate_hash applied to pairs of snapshots                  *)
(***************************************************************************)
\* Snapshots of rows with ids 1 .. n in an int64 or a float64 column (1 or
\* 1.0) and a column a that holds a text, None (dtype object) or NaN (dtype
\* float64)
HashFrames ==
    {DataFrame(SchemaColumns,
               [col \in {"id", "a", "updated_at"} |->
                   CASE col = "id" -> id_dtype
                     [] col = "a" -> cell[2]
                     [] OTHER -> "object"],
               [i \in 1 .. n |-> i - 1],
               SnapshotRows(n, cell[1])) :
        n \in 0 .. MaxSnapRows,
        id_dtype \in {"int64", "float64"},
        cell \in {<<Null, "object">>, <<Null, "float64">>, <<Str("abc"), "object">>}}

InitHash ==
    /\ pc = "hash"
    /\ call \in {[op |-> "none", first |-> first, second |-> second] :
                    first \in HashFrames, second \in HashFrames}
    /\ cache = None
    /\ files = None
    /\ table = None
    /\ remote = None
    /\ source_row = None
    /\ destination_row = None
    /\ dtypes = None
    /\ are_equal = None
    /\ df_source = None
    /\ df_destination = None
    /\ diff_result = None
    /\ sdf = None
    /\ half_applied = None
    /\ cycles = None

\* calculate_hash(first) and calculate_hash(second)
CallCalculateHash ==
    /\ pc = "hash"
    /\ pc' = "hash_done"
    /\ call' = [op |-> "calculate_hash",
                first |-> call.first,
                second |-> call.second,
                first_digest |-> calculate_hash(call.first),
                second_digest |-> calculate_hash(call.second)]
    /\ UNCHANGED <<cache, files, rows_vars, diff_vars, table_vars, sync_vars, race_vars>>

NextHash == CallCalculateHash

SpecHash == InitHash /\ [][NextHash]_vars

(***************************************************************************)
(* SpecPersist: the persisted cache entry across processes                 *)
(***************************************************************************)
\* DataFrames whose text column holds numerals
NumeralFrames ==
    {DataFrame(SchemaColumns,
               [col \in {"id", "a", "updated_at"} |-> IF col = "id" THEN "int64" ELSE "object"],
               <<0>>,
               SnapshotRows(1, text)) :
        text \in {Str("7"), Str("007")}}

\* the DataFrames handed to update_cache
PersistFrames == CacheFrames \cup NumeralFrames

\* the TableStats handed to update_cache and to validate_cache
PersistStats == {TableStats(Ts(0), record_count, 0) : record_count \in 0 .. MaxSnapRows}

InitPersist ==
    /\ pc = "persist"
    /\ files = NoFiles
    /\ cache = load_cache(files)
    /\ call = [op |-> "load_cache", raised |-> FALSE]
    /\ table = None
    /\ remote = None
    /\ source_row = None
    /\ destination_row = None
    /\ dtypes = None
    /\ are_equal = None
    /\ df_source = None
    /\ df_destination = None
    /\ diff_result = None
    /\ sdf = None
    /\ half_applied = None
    /\ cycles = None

\* cache.update_cache(stats, df), which persists the entry when it succeeds
PersistUpdate ==
    /\ pc = "persist"
    /\ \E stats \in PersistStats, df \in PersistFrames \cup UnencodableFrames :
       \E outcome \in {update_cache(cache, files, stats, df)} :
          /\ cache' = outcome.cache
          /\ files' = outcome.files
          /\ call' = [op |-> "update_cache",
                      success |-> outcome.success,
                      stats |-> stats,
                      df |-> df]
    /\ UNCHANGED <<pc, rows_vars, diff_vars, table_vars, sync_vars, race_vars>>

\* The process is killed inside the persistence of an update_cache(stats, df)
\* after data.csv was written: cache_metadata.json is still the old one (not
\* opened yet) or is cut short (opened with 'w', written in part). A new
\* process then loads what the files hold.
InterruptedUpdate ==
    /\ pc = "persist"
    /\ \E df \in PersistFrames :
       \E metadata \in {files.cache_metadata_json, Malformed} :
          /\ files' = [data_csv |-> to_csv(df), cache_metadata_json |-> metadata]
          /\ cache' = load_cache(files')
          /\ call' = [op |-> "interrupted_update", before |-> files]
    /\ UNCHANGED <<pc, rows_vars, diff_vars, table_vars, sync_vars, race_vars>>

\* data.csv or cache_metadata.json is deleted or garbled from outside, and a
\* new process loads what the files hold
LoadAfterFileLoss ==
    /\ pc = "persist"
    /\ \E content \in {None, Malformed} :
          \/ /\ files.data_csv # content
             /\ files' = [files EXCEPT !.data_csv = content]
          \/ /\ files.cache_metadata_json # content
             /\ files' = [files EXCEPT !.cache_metadata_json = content]
    /\ cache' = load_cache(files')
    /\ call' = [op |-> "load_cache", raised |-> FALSE]
    /\ UNCHANGED <<pc, rows_vars, diff_vars, table_vars, sync_vars, race_vars>>

\* A new process: CacheManager(table, table_loc) loads what the files hold
LoadEntry ==
    /\ pc = "persist"
    /\ cache' = load_cache(files)
    /\ call' = [op |-> "load_cache", raised |-> FALSE]
    /\ UNCHANGED <<pc, files, rows_vars, diff_vars, table_vars, sync_vars, race_vars>>

\* cache.validate_cache(external_stats)
ValidateEntry ==
    /\ pc = "persist"
    /\ \E external_stats \in PersistStats :
          call' = [op |-> "validate_cache",
                   external_stats |-> external_stats,
                   result |-> validate_cache(cache, external_stats)]
    /\ UNCHANGED <<pc, cache, files, rows_vars, diff_vars, table_vars, sync_vars, race_vars>>

NextPersist ==
    \/ PersistUpdate
    \/ InterruptedUpdate
    \/ LoadAfterFileLoss
    \/ LoadEntry
    \/ ValidateEntry

SpecPersist == InitPersist /\ [][NextPersist]_vars

(***************************************************************************)
(* SpecRace: two processes updating the cache entry of one table           *)
(***************************************************************************)
\* the two processes, each with its own CacheManager on the same table_loc
Procs == {1, 2}

\* the other process
other(p) == CHOOSE q \in Procs : q # p

\* A process's cycle: where it stands in update_cache, its CacheManager's
\* fields, the call's stats, the local variable success, and where the other
\* process stood when this one finished its persistence
Cycle(position, fields, stats, success, other_at_finish) ==
    [pc |-> position, cache |-> fields, stats |-> stats, success |-> success,
     other_at_finish |-> other_at_finish]

InitRace ==
    /\ pc = "race"
    /\ files = NoFiles
    /\ cycles = [p \in Procs |-> Cycle("idle", load_cache(NoFiles), None, FALSE, "none")]
    /\ call = [op |-> "none"]
    /\ cache = None
    /\ table = None
    /\ remote = None
    /\ source_row = None
    /\ destination_row = None
    /\ dtypes = None
    /\ are_equal = None
    /\ df_source = None
    /\ df_destination = None
    /\ diff_result = None
    /\ sdf = None
    /\ half_applied = None

\* Process p enters update_cache(stats, df) and runs its try block: the
\* three fields are set and success is True
TryBlock(p) ==
    /\ cycles[p].pc = "idle"
    /\ \E stats \in PersistStats, df \in CacheFrames :
          cycles' = [cycles EXCEPT ![p] =
                        Cycle("in_memory", CacheFields(df, stats, calculate_hash(df)),
                              stats, TRUE, "none")]
    /\ call' = [op |-> "try", proc |-> p]
    /\ UNCHANGED <<pc, cache, files, rows_vars, diff_vars, table_vars, sync_vars>>

\* Process p writes data.csv
WriteDataCsv(p) ==
    /\ cycles[p].pc = "in_memory"
    /\ files' = write_data_csv(files, cycles[p].cache.local_df)
    /\ cycles' = [cycles EXCEPT ![p].pc = "data_written"]
    /\ call' = [op |-> "to_csv", proc |-> p]
    /\ UNCHANGED <<pc, cache, rows_vars, diff_vars, table_vars, sync_vars>>

\* Process p writes cache_metadata.json and returns from update_cache
WriteCacheMetadata(p) ==
    /\ cycles[p].pc = "data_written"
    /\ files' = write_cache_metadata(files, cycles[p].stats, cycles[p].cache.local_hash)
    /\ cycles' = [cycles EXCEPT ![p].pc = "done",
                                ![p].other_at_finish = cycles[other(p)].pc]
    /\ call' = [op |-> "json.dump", proc |-> p]
    /\ UNCHANGED <<pc, cache, rows_vars, diff_vars, table_vars, sync_vars>>

NextRace ==
    \/ \E p \in Procs : TryBlock(p)
    \/ \E p \in Procs : WriteDataCsv(p)
    \/ \E p \in Procs : WriteCacheMetadata(p)

SpecRace == InitRace /\ [][NextRace]_vars

(***************************************************************************)
(* SpecSync: a SupaDataFrame mirrored to the remote table                  *)
(***************************************************************************)
\* most rows of a desired DataFrame and of the remote table
MaxSyncRows == 2

\* largest total_modifications counter of the remote table
MaxWrites == 2

\* the desired DataFrames that conform to the schema
SyncFrames ==
    {DataFrame(SchemaColumns,
               [col \in {"id", "a", "updated_at"} |-> IF col = "id" THEN "int64" ELSE "object"],
               [i \in 1 .. n |-> i - 1],
               SnapshotRows(n, text)) :
        n \in 0 .. MaxSyncRows, text \in {Str("abc"), Null}}

\* desired DataFrames without the schema's column a
NonConformingFrames ==
    {DataFrame(<<"id", "updated_at">>,
               [col \in {"id", "updated_at"} |-> IF col = "id" THEN "int64" ELSE "object"],
               [i \in 1 .. n |-> i - 1],
               [i \in 1 .. n |->
                   [id |-> Whole(i), updated_at |-> Str("2024-01-01T00:00:00+00:00")]]) :
        n \in 1 .. MaxSyncRows}

\* the row sets the remote table starts from and outside writers leave
SyncRemoteRows ==
    {SnapshotRows(n, text) : n \in 0 .. MaxSyncRows, text \in {Str("abc"), Null}}

\* what a call of Table.validate_cache is recorded with
ValidationRecord(op, outcome, cache_was_valid, after_half_applied) ==
    [op |-> op, raised |-> outcome.raised, update |-> outcome.update,
     cache_was_valid |-> cache_was_valid, after_half_applied |-> after_half_applied]

InitSync ==
    /\ pc = "sync"
    /\ files = NoFiles
    /\ cache = load_cache(files)
    /\ table = TableFields(None, None, "None")
    /\ remote \in {RemoteTable(rows, 0) : rows \in SyncRemoteRows}
    /\ sdf = None
    /\ half_applied = FALSE
    /\ call = [op |-> "none"]
    /\ source_row = None
    /\ destination_row = None
    /\ dtypes = None
    /\ are_equal = None
    /\ df_source = None
    /\ df_destination = None
    /\ diff_result = None
    /\ cycles = None

\* A new process: SupaDataFrame(df, db_name, table_name). A df that does not
\* conform raises ValueError before the cache is validated.
NewSupaDataFrame ==
    /\ pc = "sync"
    /\ pc' = "sync_returned"
    /\ \E df \in SyncFrames \cup NonConformingFrames :
          LET new_table == TableFields(None, None, "None")
              new_cache == load_cache(files)
              outcome == table_validate_cache(new_table, new_cache, files, remote)
          IN IF ~validate_df_schema(df)
             THEN /\ sdf' = None
                  /\ table' = new_table
                  /\ cache' = new_cache
                  /\ call' = [op |-> "SupaDataFrame", raised |-> TRUE]
                  /\ UNCHANGED <<files, half_applied>>
             ELSE /\ sdf' = [df |-> df]
                  /\ table' = outcome.table
                  /\ cache' = outcome.cache
                  /\ files' = outcome.files
                  /\ call' = ValidationRecord("SupaDataFrame", outcome,
                                              validate_cache(new_cache, get_table_stats(remote)),
                                              half_applied)
                  /\ half_applied' = FALSE
    /\ UNCHANGED <<remote, rows_vars, diff_vars, race_vars>>

\* The owner of the SupaDataFrame assigns another DataFrame to its df
ChangeDf ==
    /\ pc = "sync"
    /\ pc' = "sync_returned"
    /\ sdf # None
    /\ \E df \in SyncFrames \cup NonConformingFrames :
          /\ df # sdf.df
          /\ sdf' = [sdf EXCEPT !.df = df]
    /\ call' = [op |-> "df"]
    /\ UNCHANGED <<table, cache, files, remote, half_applied, rows_vars, diff_vars, race_vars>>

\* sdf.mirror(); the remote may answer one request of the upsert (fail in
\* 1 .. MaxSyncRows) or of the delete (fail above MaxSyncRows) with an error
Mirror ==
    /\ pc = "sync"
    /\ pc' = "sync_returned"
    /\ sdf # None
    /\ \E fail \in 0 .. 2 * MaxSyncRows :
       \E outcome \in {mirror(sdf.df, table, cache, files, remote,
                              IF fail <= MaxSyncRows THEN fail ELSE 0,
                              IF fail > MaxSyncRows THEN fail - MaxSyncRows ELSE 0)} :
          /\ outcome.remote.stats.total_modifications <= MaxWrites
          /\ table' = outcome.table
          /\ cache' = outcome.cache
          /\ files' = outcome.files
          /\ remote' = outcome.remote
          /\ call' = [op |-> "mirror",
                      raised |-> outcome.raised,
                      write_raised |-> outcome.write_raised,
                      upsert_requests |-> outcome.upsert_requests,
                      delete_requests |-> outcome.delete_requests,
                      stats_fetches |-> outcome.stats_fetches,
                      cache_updates |-> outcome.cache_updates]
          /\ half_applied' =
                IF outcome.write_raised /\ outcome.remote # remote THEN TRUE
                ELSE IF outcome.cache_updates > 0 /\ ~outcome.raised THEN FALSE
                ELSE half_applied
    /\ UNCHANGED <<sdf, rows_vars, diff_vars, race_vars>>

\* The next validation cycle: sdf.table.validate_cache()
ValidationCycle ==
    /\ pc = "sync"
    /\ pc' = "sync_returned"
    /\ sdf # None
    /\ \E outcome \in {table_validate_cache(table, cache, files, remote)} :
       /\ table' = outcome.table
       /\ cache' = outcome.cache
       /\ files' = outcome.files
       /\ call' = ValidationRecord("Table.validate_cache", outcome,
                                   validate_cache(cache, get_table_stats(remote)),
                                   half_applied)
    /\ half_applied' = FALSE
    /\ UNCHANGED <<remote, sdf, rows_vars, diff_vars, race_vars>>

\* The caller takes the result of the call and is ready for the next one
SyncReturns ==
    /\ pc = "sync_returned"
    /\ pc' = "sync"
    /\ call' = [op |-> "none"]
    /\ UNCHANGED <<table, cache, files, remote, sync_vars, rows_vars, diff_vars, race_vars>>

NextSync ==
    \/ NewSupaDataFrame
    \/ ChangeDf
    \/ Mirror
    \/ ValidationCycle
    \/ SyncReturns

SpecSync == InitSync /\ [][NextSync]_vars

(***************************************************************************)
(* SpecAlias: the objects a SupaDataFrame and its Table share              *)
(***************************************************************************)
\* The SupaDataFrame of this specification: its df, and whether Table.data
\* and CacheManager.local_df are the very object that df is
Shared(df, table_data_is_df, local_df_is_df) ==
    [df |-> df, table_data_is_df |-> table_data_is_df, local_df_is_df |-> local_df_is_df]

\* the values an in-place assignment writes to a cell of column a
AssignedValues == {Str("abc"), Str("xyz"), Null}

InitAlias ==
    /\ pc = "alias"
    /\ files = NoFiles
    /\ cache = load_cache(files)
    /\ table = TableFields(None, None, "None")
    /\ remote \in {RemoteTable(rows, 0) : rows \in SyncRemoteRows}
    /\ sdf = None
    /\ call = [op |-> "none"]
    /\ half_applied = None
    /\ source_row = None
    /\ destination_row = None
    /\ dtypes = None
    /\ are_equal = None
    /\ df_source = None
    /\ df_destination = None
    /\ diff_result = None
    /\ cycles = None

\* SupaDataFrame(df, db_name, table_name): self.df = df.copy() is an object
\* of its own, and Table.validate_cache sets Table.data from the remote
\* table or from the cache
NewSupaDataFrameOfCopy ==
    /\ sdf = None
    /\ \E df \in SyncFrames :
       \E outcome \in {table_validate_cache(TableFields(None, None, "None"),
                                            load_cache(files), files, remote)} :
          /\ sdf' = Shared(df, FALSE, FALSE)
          /\ table' = outcome.table
          /\ cache' = outcome.cache
          /\ files' = outcome.files
          /\ call' = [op |-> "SupaDataFrame", raised |-> outcome.raised]
    /\ UNCHANGED <<pc, remote, half_applied, rows_vars, diff_vars, race_vars>>

\* The owner assigns a cell of sdf.df in place (sdf.df.loc[p, 'a'] = val):
\* every reference to that object sees the new value
ChangeDfInPlace ==
    /\ sdf # None
    /\ \E p \in 1 .. len(sdf.df), val \in AssignedValues :
          LET changed == [sdf.df EXCEPT !.rows[p].a = val] IN
          /\ val # sdf.df.rows[p].a
          /\ sdf' = [sdf EXCEPT !.df = changed]
          /\ table' = IF sdf.table_data_is_df THEN [table EXCEPT !.data = changed] ELSE table
          /\ cache' = IF sdf.local_df_is_df THEN [cache EXCEPT !.local_df = changed] ELSE cache
    /\ call' = [op |-> "in_place_change"]
    /\ UNCHANGED <<pc, files, remote, half_applied, rows_vars, diff_vars, race_vars>>

\* sdf.mirror() without a failure of the remote. Table.update_cache(self.df)
\* keeps self.df itself: set_df assigns it to Table.data (a frame without
\* rows is replaced by the result of astype) and CacheManager.update_cache
\* assigns it to local_df.
MirrorShared ==
    /\ sdf # None
    /\ \E outcome \in {mirror(sdf.df, table, cache, files, remote, 0, 0)} :
          /\ outcome.remote.stats.total_modifications <= MaxWrites
          /\ table' = outcome.table
          /\ cache' = outcome.cache
          /\ files' = outcome.files
          /\ remote' = outcome.remote
          /\ sdf' = IF outcome.cache_updates > 0 /\ ~outcome.raised
                    THEN Shared(sdf.df, len(sdf.df) > 0, TRUE)
                    ELSE sdf
          /\ call' = [op |-> "mirror",
                      raised |-> outcome.raised,
                      upsert_requests |-> outcome.upsert_requests,
                      delete_requests |-> outcome.delete_requests]
    /\ UNCHANGED <<pc, half_applied, rows_vars, diff_vars, race_vars>>

NextAlias ==
    \/ NewSupaDataFrameOfCopy
    \/ ChangeDfInPlace
    \/ MirrorShared

SpecAlias == InitAlias /\ [][NextAlias]_vars

(***************************************************************************)
(* SpecDelete: Table.delete applied to bounded lists of records            *)
(***************************************************************************)
\* most records of a list passed to Table.delete
MaxKeyRecords == 2

\* the primary keys of the schema: a single key and a composite key
DeleteSchemaPks == {{"id"}, {"id", "b"}}

\* the records: every set of keys among two primary-key columns and one
\* other column, each with the value 1
KeyRecords == {[k \in keys |-> Whole(1)] : keys \in SUBSET {"id", "b", "a"}}

InitDelete ==
    /\ pc = "delete"
    /\ call \in {[op |-> "none", pks |-> pks, primary_keys |-> primary_keys] :
                    pks \in DeleteSchemaPks,
                    primary_keys \in UNION {[1 .. n -> KeyRecords] : n \in 0 .. MaxKeyRecords}}
    /\ cache = None
    /\ files = None
    /\ table = None
    /\ remote = None
    /\ source_row = None
    /\ destination_row = None
    /\ dtypes = None
    /\ are_equal = None
    /\ df_source = None
    /\ df_destination = None
    /\ diff_result = None
    /\ sdf = None
    /\ half_applied = None
    /\ cycles = None

\* table.delete(primary_keys) for a schema with the primary keys pks:
\* whether the validation raised, whether self.db.delete was called, and
\* the queries that call sent
CallTableDelete ==
    /\ pc = "delete"
    /\ pc' = "delete_done"
    /\ LET raised == delete_raises(call.primary_keys, call.pks)
           queries == delete_queries(call.primary_keys, 0, 0)
       IN call' = [op |-> "delete",
                   pks |-> call.pks,
                   primary_keys |-> call.primary_keys,
                   raised |-> raised,
                   db_delete_called |-> ~raised,
                   requests |-> IF raised THEN 0 ELSE queries.requests]
    /\ UNCHANGED <<cache, files, rows_vars, diff_vars, table_vars, sync_vars, race_vars>>

NextDelete == CallTableDelete

SpecDelete == InitDelete /\ [][NextDelete]_vars

(***************************************************************************)
(* SpecPages: the loop of SupaWrapper.upsert, one request at a time        *)
(***************************************************************************)
\* most records of a list passed to SupaWrapper.upsert
MaxRecords == 3

\* largest page_size
MaxPageSize == 3

\* the lists of records: two different records, in any order and number
RecordLists ==
    UNION {[1 .. n -> {[id |-> Whole(1)], [id |-> Whole(2)]}] : n \in 0 .. MaxRecords}

\* The frame of a call of upsert: its arguments, the local variable
\* processed, and the batches handed to the client so far
UpsertFrame(data, page_size, processed, sent) ==
    [op |-> "upsert", data |-> data, page_size |-> page_size,
     processed |-> processed, sent |-> sent]

InitPages ==
    /\ pc = "upsert_called"
    /\ call \in {UpsertFrame(data, page_size, 0, <<>>) :
                    data \in RecordLists, page_size \in 1 .. MaxPageSize}
    /\ cache = None
    /\ files = None
    /\ table = None
    /\ remote = None
    /\ source_row = None
    /\ destination_row = None
    /\ dtypes = None
    /\ are_equal = None
    /\ df_source = None
    /\ df_destination = None
    /\ diff_result = None
    /\ sdf = None
    /\ half_applied = None
    /\ cycles = None

\* self.check_client(): the client is connected, or the reconnection fails
\* and CLIENT_ERROR is raised
CheckClient ==
    /\ pc = "upsert_called"
    /\ pc' \in {"upsert_loop", "upsert_raised"}
    /\ UNCHANGED <<cache_vars, rows_vars, diff_vars, table_vars, sync_vars, race_vars>>

\* One pass of the while loop: the batch is sent; the response is taken
\* (processed += len(batch)) or it is an error, which is raised
SendBatch ==
    /\ pc = "upsert_loop"
    /\ call.processed < Len(call.data)
    /\ LET batch == batch_of(call.data, call.processed, call.page_size) IN
       \/ /\ call' = [call EXCEPT !.processed = call.processed + Len(batch),
                                  !.sent = Append(call.sent, batch)]
          /\ pc' = "upsert_loop"
       \/ /\ call' = [call EXCEPT !.sent = Append(call.sent, batch)]
          /\ pc' = "upsert_raised"
    /\ UNCHANGED <<cache, files, rows_vars, diff_vars, table_vars, sync_vars, race_vars>>

\* The loop condition processed < total_records is false: upsert returns
UpsertReturns ==
    /\ pc = "upsert_loop"
    /\ call.processed >= Len(call.data)
    /\ pc' = "upsert_returned"
    /\ UNCHANGED <<cache_vars, rows_vars, diff_vars, table_vars, sync_vars, race_vars>>

NextPages ==
    \/ CheckClient
    \/ SendBatch
    \/ UpsertReturns

\* The interpreter keeps running a call that can take a step
SpecPages == InitPages /\ [][NextPages]_vars /\ WF_vars(NextPages)

(***************************************************************************)
(* SpecStale: Table.validate_cache, one remote request at a time, beside   *)
(* another client that writes the remote table                             *)
(***************************************************************************)
InitStale ==
    /\ pc = "idle"
    /\ files = NoFiles
    /\ cache = load_cache(files)
    /\ table = TableFields(None, None, "None")
    /\ remote \in {RemoteTable(rows, 0) : rows \in SyncRemoteRows}
    /\ call = [op |-> "none"]
    /\ source_row = None
    /\ destination_row = None
    /\ dtypes = None
    /\ are_equal = None
    /\ df_source = None
    /\ df_destination = None
    /\ diff_result = None
    /\ sdf = None
    /\ half_applied = None
    /\ cycles = None

\* validate_cache up to its branch: self.meta = self.get_table_stats() (a
\* request), then self.cache.validate_cache(self.meta). With a valid cache
\* the call ends here; otherwise pull_table_data is next.
FetchStatsAndValidate ==
    /\ pc = "idle"
    /\ LET meta == get_table_stats(remote)
           loaded == set_df(cache.local_df)
       IN IF validate_cache(cache, meta)
          THEN /\ table' = IF loaded.ok
                           THEN TableFields(loaded.data, cache.local_stats, "True")
                           ELSE TableFields(table.data, meta, table.cache_valid)
               /\ pc' = "idle"
               /\ call' = [op |-> "Table.validate_cache", cache_was_valid |-> TRUE]
          ELSE /\ table' = TableFields(table.data, meta, table.cache_valid)
               /\ pc' = "pull_table_data"
               /\ call' = [op |-> "Table.validate_cache", cache_was_valid |-> FALSE]
    /\ UNCHANGED <<cache, files, remote, rows_vars, diff_vars, sync_vars, race_vars>>

\* pull_table_data up to set_df: df = self.db.get_table(self.table) (the
\* requests of the full read), then self.set_df
ReadRows ==
    /\ pc = "pull_table_data"
    /\ table' = [table EXCEPT !.data = pull_table_data(remote).data]
    /\ pc' = "rows_read"
    /\ call' = [op |-> "get_table"]
    /\ UNCHANGED <<cache, files, remote, rows_vars, diff_vars, sync_vars, race_vars>>

\* The end of pull_table_data, self.meta = self.get_table_stats() (a
\* request), and the rest of validate_cache: self.cache.update_cache(
\* self.meta, self.data) and cache_valid = True
FetchMetaAndStore ==
    /\ pc = "rows_read"
    /\ LET meta == get_table_stats(remote)
           upd == update_cache(cache, files, meta, table.data)
       IN /\ table' = TableFields(table.data, meta, cache_valid_after_update(upd))
          /\ cache' = upd.cache
          /\ files' = upd.files
          /\ call' = [op |-> "update_cache", success |-> upd.success]
    /\ pc' = "idle"
    /\ UNCHANGED <<remote, rows_vars, diff_vars, sync_vars, race_vars>>

\* Another client writes the remote table, at any moment
OtherClientWrites ==
    /\ remote.stats.total_modifications < MaxWrites
    /\ \E rows \in SyncRemoteRows :
          /\ rows # remote.rows
          /\ remote' = RemoteTable(rows, remote.stats.total_modifications + 1)
    /\ call' = [op |-> "remote_write"]
    /\ UNCHANGED <<pc, table, cache, files, rows_vars, diff_vars, sync_vars, race_vars>>

NextStale ==
    \/ FetchStatsAndValidate
    \/ ReadRows
    \/ FetchMetaAndStore
    \/ OtherClientWrites

SpecStale == InitStale /\ [][NextStale]_vars

(***************************************************************************)
(* SpecField: validate_series applied to bounded columns                   *)
(***************************************************************************)
MaxLen == 2

\* udt_names of the fields: "mood" is a custom type (an enum)
FieldUdts ==
    {"int2", "int4", "int8", "float4", "float8", "text", "timestamptz", "bool",
     "jsonb", "point", "mood"}

\* Field(name, udt_name, data_type, is_nullable, has_unique_constraint)
Fields ==
    [udt_name : FieldUdts, is_nullable : BOOLEAN, has_unique_constraint : BOOLEAN]

\* 1, the bounds of int16 and of int32 and the values next to them, and the
\* largest int64
IntCells ==
    {PyInt(WholeNumber(FALSE, 0, 0, 0, 1)),
     PyInt(WholeNumber(FALSE, 0, 0, 0, 32767)),
     PyInt(WholeNumber(FALSE, 0, 0, 0, 32768)),
     PyInt(WholeNumber(TRUE, 0, 0, 0, 32768)),
     PyInt(WholeNumber(TRUE, 0, 0, 0, 32769)),
     PyInt(WholeNumber(FALSE, 0, 0, 32767, 65535)),
     PyInt(WholeNumber(FALSE, 0, 0, 32768, 0)),
     PyInt(WholeNumber(FALSE, 32767, 65535, 65535, 65535))}

\* NaN, 1.0, 1.5, 32768.0, 9223372036854775808.0 (2^63), 1e39 and inf
FloatCells ==
    {Null,
     PyFloat(WholeNumber(FALSE, 0, 0, 0, 1)),
     PyFloat(Number(FALSE, 0, <<0, 0, 0, 1>>, 5)),
     PyFloat(WholeNumber(FALSE, 0, 0, 0, 32768)),
     PyFloat(WholeNumber(FALSE, 32768, 0, 0, 0)),
     PyFloat(E39),
     PyFloat(Infinity)}

ObjectCells == {Null, Str("2024-01-01T00:00:00+00:00"), Str("abc"), Str("7")}

TimestampCells == {Null, Ts(0), Ts(86400)}

\* the sequences of at most MaxLen cells
Cells(S) == UNION {[1 .. n -> S] : n \in 0 .. MaxLen}

\* The columns: the cells of a column fit its dtype (an int64 column holds
\* no missing value)
FieldSeries ==
    {Series("int64", values) : values \in Cells(IntCells)}
    \cup {Series("float64", values) : values \in Cells(FloatCells)}
    \cup {Series("object", values) : values \in Cells(ObjectCells)}
    \cup {Series("datetime64[ns, UTC]", values) : values \in Cells(TimestampCells)}

InitField ==
    /\ pc = "field"
    /\ call \in {[op |-> "none", field |-> fld, series |-> series] :
                    fld \in Fields, series \in FieldSeries}
    /\ cache = None
    /\ files = None
    /\ table = None
    /\ remote = None
    /\ source_row = None
    /\ destination_row = None
    /\ dtypes = None
    /\ are_equal = None
    /\ df_source = None
    /\ df_destination = None
    /\ diff_result = None
    /\ sdf = None
    /\ half_applied = None
    /\ cycles = None

\* field.validate_series(series), with what its type_validation returned
CallValidateSeries ==
    /\ pc = "field"
    /\ pc' = "field_done"
    /\ call' = [op |-> "validate_series",
                field |-> call.field,
                series |-> call.series,
                type_valid |-> type_validation(call.field, call.series),
                issues |-> validate_series(call.field, call.series)]
    /\ UNCHANGED <<cache, files, rows_vars, diff_vars, table_vars, sync_vars, race_vars>>

NextField == CallValidateSeries

SpecField == InitField /\ [][NextField]_vars

(***************************************************************************)
(* Claims about gen_diffs (SpecDiff)                                       *)
(***************************************************************************)
SourceKey(p) == pk_tuple(df_source.rows[p], PrimaryKeys)

DestinationKey(q) == pk_tuple(df_destination.rows[q], PrimaryKeys)

SourceKeys == {SourceKey(p) : p \in 1 .. len(df_source)}

DestinationKeys ==
    IF df_destination = None THEN {}
    ELSE {DestinationKey(q) : q \in 1 .. len(df_destination)}

\* the row is one of the rows of a returned frame
RowIn(row, df) == df # None /\ \E j \in 1 .. len(df) : df.rows[j] = row

\* the primary-key tuple is the key of a row of a returned frame
KeyIn(key, df) ==
    df # None /\ \E j \in 1 .. len(df) : pk_tuple(df.rows[j], PrimaryKeys) = key

\* gen_diffs has returned a pair of results
DiffReturned == pc = "diff_done" /\ ~diff_result.raised

\* the source row at position p (1-based) and the destination row at q
\* differ according to rows_are_equal
RowsDiffer(p, q) ==
    ~rows_are_equal([index |-> df_source.columns, data |-> df_source.rows[p]],
                    [index |-> df_destination.columns, data |-> df_destination.rows[q]],
                    df_source.dtypes)

\* C1: whenever gen_diffs returns, a source row whose key is also in the
\* destination is among the upserts exactly when rows_are_equal is false for it
\* against the destination row with that key, and its key is not among the
\* deletes.
C1_UpsertIffRowsDiffer ==
    (DiffReturned /\ df_destination # None) =>
        \A p \in 1 .. len(df_source) : \A q \in 1 .. len(df_destination) :
            SourceKey(p) = DestinationKey(q) =>
                /\ RowIn(df_source.rows[p], diff_result.upsert_df) <=> RowsDiffer(p, q)
                /\ ~KeyIn(SourceKey(p), diff_result.delete_df)

\* C2: whenever gen_diffs returns, every row whose key is only in source is
\* among the upserts, every row whose key is only in destination is among the
\* deletes, and no key is in both results.
C2_DiffComplete ==
    DiffReturned =>
        /\ \A p \in 1 .. len(df_source) :
              SourceKey(p) \notin DestinationKeys =>
                  RowIn(df_source.rows[p], diff_result.upsert_df)
        /\ df_destination # None =>
              \A q \in 1 .. len(df_destination) :
                  DestinationKey(q) \notin SourceKeys =>
                      RowIn(df_destination.rows[q], diff_result.delete_df)
        /\ \A key \in SourceKeys \cup DestinationKeys :
              ~(KeyIn(key, diff_result.upsert_df) /\ KeyIn(key, diff_result.delete_df))

\* the source positions the contract makes upserts: key absent from the
\* destination (or no destination), or the matched rows differ
ToUpsert ==
    {p \in 1 .. len(df_source) :
        \/ SourceKey(p) \notin DestinationKeys
        \/ \E q \in 1 .. len(df_destination) :
              SourceKey(p) = DestinationKey(q) /\ RowsDiffer(p, q)}

\* the destination positions the contract makes deletes
ToDelete ==
    IF df_destination = None THEN {}
    ELSE {q \in 1 .. len(df_destination) : DestinationKey(q) \notin SourceKeys}

\* C3: whenever gen_diffs returns, each result is None exactly when there is
\* nothing to upsert (nothing to delete), so no returned frame is empty.
C3_AbsentIffNothingToDo ==
    DiffReturned =>
        /\ diff_result.upsert_df = None <=> ToUpsert = {}
        /\ diff_result.delete_df = None <=> ToDelete = {}
        /\ diff_result.upsert_df # None => len(diff_result.upsert_df) > 0
        /\ diff_result.delete_df # None => len(diff_result.delete_df) > 0

\* the rows of a returned frame (no row when the result is None)
RowsOf(df) == IF df = None THEN {} ELSE {df.rows[j] : j \in 1 .. len(df)}

\* C28: whatever the row labels of the two frames are, gen_diffs does not
\* fail, and for every primary-key tuple the row it compares and emits is
\* the row that holds this key: the upserts are the source rows whose key is
\* new or whose row differs from the destination row with the same key, and
\* the deletes are the destination rows whose key is not in the source.
C28_RowsSelectedByKeyWhateverTheLabels ==
    (pc = "diff_done" /\ df_destination # None) =>
        /\ ~diff_result.raised
        /\ RowsOf(diff_result.upsert_df) = {df_source.rows[p] : p \in ToUpsert}
        /\ RowsOf(diff_result.delete_df) = {df_destination.rows[q] : q \in ToDelete}

(***************************************************************************)
(* Claims about rows_are_equal (SpecRows)                                  *)
(***************************************************************************)
\* the columns of source_row that are compared
Compared == {source_row.index[i] : i \in DOMAIN source_row.index} \ ignore_columns

\* the column's equality rule of the contract: both null; or neither null and
\* close (numeric), the same instant (timestamp), directly equal, or two texts
\* that parse to the same instant
ColumnEqual(col) ==
    LET s_val == source_row.data[col]
        d_val == destination_row.data[col]
    IN \/ isna(s_val) /\ isna(d_val)
       \/ /\ ~isna(s_val) /\ ~isna(d_val)
          /\ \/ is_numeric_dtype(dtypes[col]) /\ isclose(s_val.v, d_val.v)
             \/ is_datetime64_any_dtype(dtypes[col]) /\ Timestamp(s_val) = Timestamp(d_val)
             \/ ~PyNe(s_val, d_val)
             \/ /\ isstr(s_val) /\ isstr(d_val)
                /\ parses(s_val.v) /\ parses(d_val.v)
                /\ to_datetime(s_val.v) = to_datetime(d_val.v)

\* C4: rows_are_equal returns true only if every compared column is equal
\* under its rule, wherever the differing column stands in the row.
C4_TrueOnlyIfAllColumnsEqual ==
    pc = "rows_done" => (are_equal => \A col \in Compared : ColumnEqual(col))

\* C5: a row pair whose only compared column is numeric with two non-null
\* values is equal exactly when the values are within rtol 1e-5 / atol 1e-8.
C5_NumericWithinTolerance ==
    (/\ pc = "rows_done"
     /\ Compared = {"b"}
     /\ ~isna(source_row.data["b"]) /\ ~isna(destination_row.data["b"])) =>
        (are_equal <=> isclose(source_row.data["b"].v, destination_row.data["b"].v))

\* the compared text column holds two non-null texts that are not directly equal
TextsDiffer(col) ==
    /\ isstr(source_row.data[col]) /\ isstr(destination_row.data[col])
    /\ source_row.data[col] # destination_row.data[col]

\* both texts parse as timestamps, to the same instant
SameInstant(col) ==
    /\ parses(source_row.data[col].v) /\ parses(destination_row.data[col].v)
    /\ to_datetime(source_row.data[col].v) = to_datetime(destination_row.data[col].v)

\* C6: for a compared column holding two different non-null texts, the rows
\* differ when the texts do not parse to the same instant, and a row pair
\* with no other compared column is equal exactly when they do.
C6_TextTimestampFallback ==
    pc = "rows_done" =>
        \A col \in Compared \cap {"a", "c"} :
            TextsDiffer(col) =>
                /\ ~SameInstant(col) => ~are_equal
                /\ Compared = {col} => (are_equal <=> SameInstant(col))

(***************************************************************************)
(* Claims about the CacheManager (SpecCache)                               *)
(***************************************************************************)
\* the entry has a snapshot, stored stats and a stored hash
HasParts == cache.local_df # None /\ cache.local_stats # None /\ cache.local_hash # None

\* the stored stats equal the supplied stats field by field
StoredStatsEqual(external_stats) ==
    /\ cache.local_stats.last_modified = external_stats.last_modified
    /\ cache.local_stats.record_count = external_stats.record_count
    /\ cache.local_stats.total_modifications = external_stats.total_modifications

\* the snapshot has as many rows as the supplied stats count
RowCountEqual(external_stats) == Len(cache.local_df.rows) = external_stats.record_count

\* the hash recomputed from the snapshot is the stored hash
HashCurrent == cache.local_hash = sha256(to_csv(cache.local_df))

ValidateReturned == pc = "cache_returned" /\ call.op = "validate_cache"

\* C7: validate_cache returns true if and only if the entry has a snapshot,
\* stored stats and a stored hash, the stored stats equal the supplied stats
\* on last_modified, record_count and total_modifications, the snapshot's row
\* count equals the supplied record_count, and the hash recomputed from the
\* snapshot equals the stored hash; so a snapshot changed after its hash was
\* stored is invalid even when the stats match.
C7_ValidIffFourChecks ==
    ValidateReturned =>
        (call.result <=> (/\ HasParts
                          /\ StoredStatsEqual(call.external_stats)
                          /\ RowCountEqual(call.external_stats)
                          /\ HashCurrent))

\* validate_cache has returned false on an entry whose stats and row count
\* match but whose snapshot no longer has the stored hash
C7_ChangedSnapshotRejected ==
    /\ ValidateReturned
    /\ HasParts
    /\ StoredStatsEqual(call.external_stats)
    /\ RowCountEqual(call.external_stats)
    /\ ~HashCurrent
    /\ ~call.result

UpdateReturned == pc = "cache_returned" /\ call.op = "update_cache"

\* C8: after a successful update_cache(M, S) with M.record_count equal to
\* the number of rows of S, validate_cache(M) on the same CacheManager
\* returns true.
C8_UpdateThenValidate ==
    (UpdateReturned /\ call.success /\ call.stats.record_count = len(call.df))
        => validate_cache(cache, call.stats)

\* a successful update_cache(M, S) of a snapshot with rows and a matching
\* record_count has returned, and the entry is valid against M
C8_MatchingUpdateDone ==
    /\ UpdateReturned
    /\ call.success
    /\ call.stats.record_count = len(call.df)
    /\ len(call.df) > 0
    /\ validate_cache(cache, call.stats)

\* C9: after an update_cache that failed before persistence (the hash
\* computation raised), the snapshot, the stats and the hash of the entry
\* equal their values from before the call and the files are as they were.
C9_FailedUpdateRollsBack ==
    (UpdateReturned /\ ~call.success) =>
        /\ cache.local_df = call.before.cache.local_df
        /\ cache.local_stats = call.before.cache.local_stats
        /\ cache.local_hash = call.before.cache.local_hash
        /\ files = call.before.files

\* an update_cache has failed on an entry that held a snapshot, stats and a
\* hash
C9_FailedUpdateOnFilledEntry ==
    /\ UpdateReturned
    /\ ~call.success
    /\ HasParts
    /\ files.data_csv # None

(***************************************************************************)
(* Claims about the Table and its CacheManager (Spec)                      *)
(***************************************************************************)
\* the Table's call made a CacheManager.update_cache, which rolled back
UpdateRolledBack ==
    /\ call.op \in {"Table.validate_cache", "Table.update_cache"}
    /\ call.update # None
    /\ ~call.update.success

\* C10: an update that rolled back is reported to the caller as failed, and
\* the Table does not mark its cache valid after it.
C10_RolledBackUpdateReported ==
    UpdateRolledBack => (call.update.returned = "False" /\ table.cache_valid # "True")

(***************************************************************************)
(* Claims about SupaDataFrame.mirror (SpecSync)                            *)
(***************************************************************************)
MirrorReturned == pc = "sync_returned" /\ call.op = "mirror"

\* C11: in every mirror, Table.update_cache is invoked only when no remote
\* write (upsert, delete) raised, and a mirror in which the upsert or the
\* delete raised leaves the CacheManager's snapshot, stats and hash and the
\* persisted files exactly as they were before it.
C11_CacheUntouchedByFailedWrite ==
    [][call'.op = "mirror" =>
          /\ call'.cache_updates > 0 => ~call'.write_raised
          /\ call'.write_raised => (cache' = cache /\ files' = files)]_vars

\* a mirror has raised in its delete after its upsert had been applied, on a
\* SupaDataFrame whose cache holds an entry
C11_DeleteRaisedAfterUpsert ==
    /\ MirrorReturned
    /\ call.write_raised
    /\ call.upsert_requests > 0
    /\ call.delete_requests > 0
    /\ cache.local_df # None
    /\ files.data_csv # None

\* a call of Table.validate_cache (by itself or inside SupaDataFrame.__init__)
\* has returned
ValidationReturned ==
    /\ pc = "sync_returned"
    /\ call.op \in {"SupaDataFrame", "Table.validate_cache"}
    /\ "cache_was_valid" \in DOMAIN call

C13_NoWriteForNonConformingFrame ==
    (MirrorReturned /\ call.upsert_requests + call.delete_requests > 0) =>
        validate_df_schema(sdf.df)

\* gen_diffs of the SupaDataFrame's df against the Table's data gives
\* (None, None)
NothingToMirror ==
    LET diffs == gen_diffs(sdf.df, table.data, SchemaPks) IN
    ~diffs.raised /\ diffs.upsert_df = None /\ diffs.delete_df = None

\* C18: a mirror whose diff is (None, None) sends no upsert and no delete
\* request, fetches no statistics, raises nothing, and leaves the cache
\* entry, the persisted files, the Table and the remote table as they were.
C18_NoDiffNoEffect ==
    [][(call'.op = "mirror" /\ NothingToMirror) =>
          /\ call'.upsert_requests = 0
          /\ call'.delete_requests = 0
          /\ call'.stats_fetches = 0
          /\ call'.cache_updates = 0
          /\ ~call'.raised
          /\ cache' = cache /\ files' = files /\ table' = table /\ remote' = remote]_vars

\* a mirror of a DataFrame with rows has returned with nothing to do
C18_MirrorWithNothingToDo ==
    /\ MirrorReturned
    /\ NothingToMirror
    /\ len(sdf.df) > 0
    /\ call.upsert_requests + call.delete_requests + call.stats_fetches = 0
    /\ ~call.raised

(***************************************************************************)
(* Claims about Table.validate_cache (Spec)                                *)
(***************************************************************************)
\* Table.validate_cache has run on a cache that failed validation against the
\* statistics it fetched
InvalidCacheFound == call.op = "Table.validate_cache" /\ ~call.cache_was_valid

SnapshotFileReplaced ==
    call.op = "interrupted_update" /\ files.data_csv # call.before.data_csv

\* C15: after an update_cache that was interrupted once the snapshot file was
\* written (the metadata file still old, or cut short), load_cache followed
\* by validate_cache returns false for every statistics: the new snapshot is
\* never accepted with the old hash and stats.
C15_MixedEntryNeverValid ==
    SnapshotFileReplaced =>
        \A external_stats \in PersistStats :
            ~validate_cache(load_cache(files), external_stats)

\* C16: after a successful update_cache(M, S) with M.record_count equal to
\* the number of rows of S, a new CacheManager at the same location loads an
\* entry for which validate_cache(M) returns true.
C16_PersistedEntryRoundTrips ==
    (/\ call.op = "update_cache"
     /\ call.success
     /\ call.stats.record_count = len(call.df)) =>
        validate_cache(load_cache(files), call.stats)

\* load_cache has run on files of which the snapshot or the metadata is
\* missing or cannot be parsed
LoadedFromIncomplete ==
    call.op = "load_cache" /\ (~csv_loads(files) \/ ~metadata_loads(files))

\* C19: a load_cache that finds the snapshot or the metadata missing or
\* unparsable raises nothing and leaves no snapshot; a snapshot is never held
\* without stats and hash; an entry without snapshot is invalid against
\* every statistics, and it gets a snapshot only by an update_cache that
\* succeeds or by a load of a complete persisted entry.
C19_EmptyUntilUpdated ==
    /\ [](LoadedFromIncomplete => (~call.raised /\ cache.local_df = None))
    /\ [](cache.local_df # None => (cache.local_stats # None /\ cache.local_hash # None))
    /\ [](cache.local_df = None =>
             \A external_stats \in PersistStats : ~validate_cache(cache, external_stats))
    /\ [][(cache.local_df = None /\ cache'.local_df # None) =>
             \/ call'.op = "update_cache" /\ call'.success
             \/ csv_loads(files') /\ metadata_loads(files')]_vars

\* a new process has found a snapshot file without loadable metadata and
\* holds an empty entry
C19_SnapshotWithoutMetadataDropped ==
    /\ call.op = "load_cache"
    /\ csv_loads(files)
    /\ ~metadata_loads(files)
    /\ cache = CacheFields(None, None, None)

(***************************************************************************)
(* Claims about calculate_hash (SpecHash)                                  *)
(***************************************************************************)
\* the two snapshots have the same columns and, row by row, the same values:
\* the same number (whether held as int or as float), the same text, or a
\* null on both sides (whether None or NaN)
SameContent ==
    /\ call.first.columns = call.second.columns
    /\ call.first.rows = call.second.rows

\* C17: calculate_hash gives two snapshots with the same logical content the
\* same digest, whatever the in-memory representation of the values (whole
\* numbers as int64 or float64, nulls as None or NaN).
C17_SameContentSameDigest ==
    (pc = "hash_done" /\ SameContent) => call.first_digest = call.second_digest

(***************************************************************************)
(* Claims about concurrent cycles (SpecRace)                               *)
(***************************************************************************)
\* both processes have returned from update_cache
BothDone == \A p \in Procs : cycles[p].pc = "done"

\* process p had finished its persistence before the other process wrote
\* anything
PersistedFirst(p) == cycles[p].other_at_finish \in {"idle", "in_memory"}

\* the files hold exactly the entry of process p
PersistedEntryOf(p) ==
    /\ files.data_csv = to_csv(cycles[p].cache.local_df)
    /\ files.cache_metadata_json =
          metadata_asdict(cycles[p].cache.local_stats, cycles[p].cache.local_hash)

\* C20: nothing serializes two cycles on one table's cache entry: when two
\* processes have both run update_cache and one persisted before the other
\* wrote, the persisted entry is exactly the later cycle's snapshot, stats
\* and hash, while the earlier cycle was told of no failure and still holds
\* its own entry in memory.
C20_LaterCycleOverwrites ==
    BothDone =>
        \A p \in Procs :
            PersistedFirst(p) =>
                /\ PersistedEntryOf(other(p))
                /\ cycles[p].success
                /\ cycles[p].cache.local_hash = calculate_hash(cycles[p].cache.local_df)

\* two cycles that overlapped (the second had entered update_cache when the
\* first finished) have persisted different entries, and only the second
\* cycle's entry is on disk
C20_UpdateLost ==
    /\ BothDone
    /\ cycles[1].other_at_finish = "in_memory"
    /\ cycles[1].success /\ cycles[2].success
    /\ PersistedEntryOf(2)
    /\ files.data_csv # to_csv(cycles[1].cache.local_df)
    /\ files.cache_metadata_json #
          metadata_asdict(cycles[1].cache.local_stats, cycles[1].cache.local_hash)

(***************************************************************************)
(* Claims about Field.validate_series (SpecField)                          *)
(***************************************************************************)
FieldValidated == pc = "field_done"

\* the non-null values of the validated column
NonNull == {call.series.values[i] : i \in dropna(call.series)}

\* C21: for a field declared timestamp, timestamptz or date and a column
\* whose values are not all null, type_validation returns True exactly when
\* every value of the column can be parsed as a timestamp, whatever the
\* dtype of the column is.
C21_TimestampIffEveryValueParses ==
    (/\ FieldValidated
     /\ call.field.udt_name \in {"timestamp", "timestamptz", "date"}
     /\ NonNull # {})
        => (call.type_valid <=> \A val \in NonNull : value_parses(val))

\* the representations a column may be written as, with the range of each
Representations ==
    [rep \in {"int16", "int32", "int64", "float32", "float64"} |->
        CASE rep = "int16" -> [min |-> WholeNumber(TRUE, 0, 0, 0, 32768),
                               max |-> WholeNumber(FALSE, 0, 0, 0, 32767)]
          [] rep = "int32" -> [min |-> WholeNumber(TRUE, 0, 0, 32768, 0),
                               max |-> WholeNumber(FALSE, 0, 0, 32767, 65535)]
          [] rep = "int64" -> [min |-> WholeNumber(TRUE, 32768, 0, 0, 0),
                               max |-> WholeNumber(FALSE, 32767, 65535, 65535, 65535)]
          [] rep = "float32" -> [min |-> Negative(Float32Max), max |-> Float32Max]
          [] OTHER -> [min |-> Negative(Float64Max), max |-> Float64Max]]

\* every non-null value of the validated column lies in the range of rep
RangeCovers(rep) ==
    \A val \in NonNull :
        NumLe(Representations[rep].min, val.v) /\ NumLe(val.v, Representations[rep].max)

DeclaredNumeric ==
    call.field.udt_name \in {"int2", "int4", "int8", "float4", "float8", "numeric"}

DeclaredInteger == call.field.udt_name \in {"int2", "int4", "int8"}

\* C22: for an integer column with a non-null value and a field of a
\* numeric type, type_validation returns True exactly when one of int16,
\* int32, int64, float32, float64 whose range covers the column's values is
\* a dtype the field accepts.
C22_IntegerColumnIffCoveringRepresentation ==
    (/\ FieldValidated
     /\ call.series.dtype = "int64"
     /\ NonNull # {}
     /\ DeclaredNumeric)
        => (call.type_valid <=>
               \E rep \in DOMAIN Representations :
                   RangeCovers(rep) /\ InList(rep, validity_map[call.field.udt_name]))

\* an integer column whose largest value is 32768 passes for an int4 field
C22_MediumIntegerAccepts32768 ==
    /\ FieldValidated
    /\ call.series.dtype = "int64"
    /\ PyInt(WholeNumber(FALSE, 0, 0, 0, 32768)) \in NonNull
    /\ RangeCovers("int32")
    /\ ~RangeCovers("int16")
    /\ call.field.udt_name = "int4"
    /\ call.type_valid

\* C23: a float column passes type_validation for a field of an integer
\* type exactly when every non-null value is a whole number and the values
\* lie in the range of that integer type; missing values beside whole
\* numbers do not prevent it.
C23_FloatToIntegerIffWholeAndInRange ==
    (/\ FieldValidated
     /\ call.series.dtype = "float64"
     /\ DeclaredInteger)
        => (call.type_valid <=>
               /\ \A val \in NonNull : val.v.scale = 0 /\ val.v.frac = 0
               /\ RangeCovers(validity_map[call.field.udt_name][1]))

\* C24: a column whose values are all null (a column without rows too)
\* passes type_validation for every field that accepts a numeric dtype or a
\* text-like dtype, whatever the dtype of the column is.
C24_AllNullIsWritable ==
    (/\ FieldValidated
     /\ NonNull = {}
     /\ \E i \in 1 .. Len(valid_dtypes_of(call.field.udt_name)) :
           valid_dtypes_of(call.field.udt_name)[i] \in numeric_dtypes \cup {"object", "string"})
        => call.type_valid

\* an object column of one None passes for an int2 field
C24_AllNullObjectToSmallInteger ==
    /\ FieldValidated
    /\ call.series = Series("object", <<Null>>)
    /\ call.field.udt_name = "int2"
    /\ call.type_valid

\* C25: validate_series reports the uniqueness issue exactly when the field
\* is declared unique and two non-null values of the column are equal;
\* repeated nulls alone give no uniqueness issue.
C25_UniqueIssueIffNonNullDuplicate ==
    FieldValidated =>
        ("unique" \in call.issues <=>
            /\ call.field.has_unique_constraint
            /\ \E i, j \in dropna(call.series) :
                  i < j /\ same_value(call.series.values[i], call.series.values[j]))

(***************************************************************************)
(* Claims about the shared snapshot (SpecAlias)                            *)
(***************************************************************************)
\* C26: the snapshot the diff is made against is never the object that the
\* desired DataFrame is: after any sequence of mirror calls, an in-place
\* change of the SupaDataFrame's df leaves Table.data and the cached
\* snapshot as they were, and the mirror that follows the change sends an
\* upsert whenever a row of df is not a row of the remote table.
C26_SnapshotIsNotTheDesiredFrame ==
    [][/\ call'.op = "in_place_change" =>
             (table'.data = table.data /\ cache'.local_df = cache.local_df)
       /\ (call.op = "in_place_change" /\ call'.op = "mirror"
           /\ \E p \in 1 .. len(sdf.df) :
                 \A q \in 1 .. Len(remote.rows) : sdf.df.rows[p] # remote.rows[q]) =>
             call'.upsert_requests > 0]_vars

(***************************************************************************)
(* Claims about Table.delete (SpecDelete)                                  *)
(***************************************************************************)
\* every record passed holds exactly the primary-key columns of the schema
EveryRecordHoldsThePks ==
    \A j \in 1 .. Len(call.primary_keys) : DOMAIN call.primary_keys[j] = call.pks

\* C29: Table.delete calls the remote delete only when every record passed
\* holds exactly the primary-key columns of the schema; with one record
\* that holds another key, lacks a primary key or holds no key at all it
\* raises ValueError and no delete is sent.
C29_DeleteOnlyWithExactKeys ==
    pc = "delete_done" =>
        /\ call.db_delete_called => EveryRecordHoldsThePks
        /\ ~EveryRecordHoldsThePks => (call.raised /\ call.requests = 0)

(***************************************************************************)
(* Claims about SupaWrapper.upsert (SpecPages)                             *)
(***************************************************************************)
RECURSIVE Flatten(_)
\* the records of a sequence of batches, in the order they were sent
Flatten(batches) ==
    IF batches = <<>> THEN <<>> ELSE Head(batches) \o Flatten(Tail(batches))

\* upsert has returned or raised
UpsertEnded == pc \in {"upsert_returned", "upsert_raised"}

\* The batches sent so far are consecutive pieces of data in its order, each
\* of 1 .. page_size records; when upsert returns they are the whole of data
BatchesAreConsecutive ==
    /\ \A i \in 1 .. Len(call.sent) : Len(call.sent[i]) \in 1 .. call.page_size
    /\ Flatten(call.sent) = SubSeq(call.data, 1, Len(Flatten(call.sent)))
    /\ pc = "upsert_returned" => Flatten(call.sent) = call.data
    /\ call.data = <<>> => call.sent = <<>>

\* C30: for every list of records and every page_size >= 1, upsert ends;
\* the batches it sends are consecutive pieces of the list in its order, of
\* at most page_size records each, every record in exactly one batch when
\* it returns; after a failed batch it raises and sends nothing more; for
\* an empty list it sends nothing.
C30_UpsertPaginates ==
    /\ []BatchesAreConsecutive
    /\ [][pc = "upsert_raised" => call' = call]_vars
    /\ <>UpsertEnded

\* three records sent with page_size 2: two batches, the second of one
C30_LastBatchIsShort ==
    /\ pc = "upsert_returned"
    /\ Len(call.data) = 3
    /\ call.page_size = 2
    /\ Len(call.sent) = 2
    /\ Len(call.sent[2]) = 1
    /\ Flatten(call.sent) = call.data

(***************************************************************************)
(* Claims about the stored entry beside another writer (SpecStale)         *)
(***************************************************************************)
\* C27: the metadata stored with a snapshot is the metadata of a remote
\* state that has the snapshot's rows, even when another client writes
\* between the full read and the metadata fetch: so whenever the Table is
\* between two calls and validate_cache would accept the cache for the
\* remote table's statistics, the snapshot holds the remote table's rows.
C27_AcceptedSnapshotIsTheRemoteRows ==
    (pc = "idle" /\ validate_cache(cache, get_table_stats(remote))) =>
        cache.local_df.rows = remote.rows

====
